---------------------------- MODULE Spec2Model ----------------------------
(***************************************************************************)
(* Matter bridge servers (JayMon0327/matter-api): the discovery-output     *)
(* parser, the in-memory device registry (deviceState) and the request     *)
(* handlers that run chip-tool and update the registry.                    *)
(*                                                                         *)
(* The repository holds several near-duplicate servers.  Each is one       *)
(* value of the variable `variant`:                                        *)
(*   "part_001"  src/unnamed/part_001                                      *)
(*   "server_a"  src/matterServer/server.js lines 1-378                    *)
(*   "server_b"  src/matterServer/server.js lines 380-559                  *)
(*   "server_c"  src/matterServer/server.js lines 561-1145                 *)
(*   "part_002"  src/unnamed/part_002                                      *)
(*                                                                         *)
(* JavaScript strings that the code takes apart (tool output, field        *)
(* values, node ids) are sequences of tokens.  A token is one character    *)
(* ("[", ":", " ", a digit, ...) or a run of characters that the code      *)
(* only ever handles as a whole (a label such as "Hostname", the text of   *)
(* the node marker, a host name).  "ESC[" is the two characters ESC and    *)
(* "[" that open an ANSI escape sequence.  Enumerated values that the code *)
(* only compares ('discovered', 'wifi', ...) are TLA+ strings.             *)
(***************************************************************************)
EXTENDS Integers, Sequences, FiniteSets

(***************************************************************************)
(* Character classes of the regular expressions                            *)
(***************************************************************************)
Digits == {"0", "1", "2", "3", "4", "5", "6", "7", "8", "9"}

\* \s
Spaces == {" ", "\t", "\n"}

\* \w : digits and the tokens made of letters and digits only
WordChars == Digits \cup {"m", "DIS", "CTL", "light1", "plug2", "Hostname", "Port", "true", "TRUE"}

\* [0-9;]
AnsiParams == Digits \cup {";"}

(***************************************************************************)
(* String primitives of JavaScript, on token sequences                     *)
(***************************************************************************)
At(s, i) == IF i \in 1..Len(s) THEN s[i] ELSE "<end>"

\* index of the first position >= i whose token is not in class S
Run(s, i, S) ==
    LET stops == {j \in i..Len(s) : s[j] \notin S}
    IN  IF stops = {} THEN Len(s) + 1
        ELSE CHOOSE j \in stops : \A k \in stops : j <= k

\* String.prototype.trim
Trim(s) ==
    LET keep == {j \in 1..Len(s) : s[j] \notin Spaces}
    IN  IF keep = {} THEN <<>>
        ELSE LET lo == CHOOSE j \in keep : \A k \in keep : j <= k
                 hi == CHOOSE j \in keep : \A k \in keep : k <= j
             IN  SubSeq(s, lo, hi)

\* String.prototype.startsWith
StartsWith(s, p) == Len(p) <= Len(s) /\ SubSeq(s, 1, Len(p)) = p

\* String.prototype.indexOf, 1-based; 0 when p does not occur (-1 in JavaScript)
IndexOf(s, p) ==
    LET hits == {i \in 1..(Len(s) - Len(p) + 1) : SubSeq(s, i, i + Len(p) - 1) = p}
    IN  IF hits = {} THEN 0
        ELSE CHOOSE i \in hits : \A k \in hits : i <= k

\* String.prototype.includes
Includes(s, p) == IndexOf(s, p) # 0

\* String.prototype.split with a non-empty separator
RECURSIVE Split(_, _)
Split(s, sep) ==
    LET i == IndexOf(s, sep)
    IN  IF i = 0 THEN <<s>>
        ELSE <<SubSeq(s, 1, i - 1)>> \o Split(SubSeq(s, i + Len(sep), Len(s)), sep)

\* Array.prototype.join
RECURSIVE Join(_, _)
Join(parts, sep) ==
    IF parts = <<>> THEN <<>>
    ELSE IF Len(parts) = 1 THEN parts[1]
    ELSE parts[1] \o sep \o Join(Tail(parts), sep)

\* String.prototype.toLowerCase on the tokens that have upper-case letters
ToLowerCase(s) == [i \in 1..Len(s) |-> IF s[i] = "TRUE" THEN "true" ELSE s[i]]

\* Number.prototype.toString for n >= 0
RECURSIVE toString(_)
toString(n) ==
    LET d == <<"0", "1", "2", "3", "4", "5", "6", "7", "8", "9">>[(n % 10) + 1]
    IN  IF n < 10 THEN <<d>> ELSE toString(n \div 10) \o <<d>>

\* object spread { ...a, ...b }: the fields of b override those of a
Spread(a, b) ==
    [k \in (DOMAIN a) \cup (DOMAIN b) |-> IF k \in DOMAIN b THEN b[k] ELSE a[k]]

(***************************************************************************)
(* Literals of the parsers                                                 *)
(***************************************************************************)
Marker == <<"Discovered commissionable/commissioner node", ":">>

DisTag == <<"[", "DIS", "]">>

Colon == <<":">>

NotPresent == <<"not present">>

Label(key) == <<key, ":">>

IpLabel == <<"IP Address #">>

(***************************************************************************)
(* Values handed to parseDiscoveryResult.  A JavaScript value is a record: *)
(* kind "string" with its text, kind "undefined" (undefined, null: falsy,  *)
(* no methods) or kind "object" (truthy, and without a trim method).       *)
(***************************************************************************)
Str(text) == [kind |-> "string", text |-> text]

Undefined == [kind |-> "undefined", text |-> <<>>]

NonString == [kind |-> "object", text |-> <<>>]

\* !result
IsFalsy(result) == result.kind = "undefined" \/ (result.kind = "string" /\ result.text = <<>>)

(***************************************************************************)
(* parseDiscoveryResult of src/unnamed/part_002                            *)
(***************************************************************************)
\* where the match of /\[\d+\.\d+\]\s*\[\d+:\d+\]\s*\[\w+\]\s*/ that starts at
\* position i ends (the position after it), 0 when none starts at i
LogPrefixEnd(s, i) ==
    LET d1 == Run(s, i + 1, Digits)
        d2 == Run(s, d1 + 1, Digits)
        w1 == Run(s, d2 + 1, Spaces)
        d3 == Run(s, w1 + 1, Digits)
        d4 == Run(s, d3 + 1, Digits)
        w2 == Run(s, d4 + 1, Spaces)
        w3 == Run(s, w2 + 1, WordChars)
    IN  IF /\ At(s, i) = "["
           /\ d1 > i + 1  /\ At(s, d1) = "."
           /\ d2 > d1 + 1 /\ At(s, d2) = "]"
           /\ At(s, w1) = "["
           /\ d3 > w1 + 1 /\ At(s, d3) = ":"
           /\ d4 > d3 + 1 /\ At(s, d4) = "]"
           /\ At(s, w2) = "["
           /\ w3 > w2 + 1 /\ At(s, w3) = "]"
        THEN Run(s, w3 + 1, Spaces)
        ELSE 0

\* line.replace(/\[\d+\.\d+\]\s*\[\d+:\d+\]\s*\[\w+\]\s*/, '').trim()
cleanLine(line) ==
    LET starts == {i \in 1..Len(line) : LogPrefixEnd(line, i) # 0}
    IN  IF starts = {} THEN Trim(line)
        ELSE LET i == CHOOSE j \in starts : \A k \in starts : j <= k
             IN  Trim(SubSeq(line, 1, i - 1) \o SubSeq(line, LogPrefixEnd(line, i), Len(line)))

extractValue(line) ==
    LET colonIndex == IndexOf(line, Colon)
    IN  IF colonIndex = 0 THEN <<>>
        ELSE Trim(SubSeq(line, colonIndex + 1, Len(line)))

\* the object literal assigned to currentDevice at a marker line
NewDevice002 ==
    [name |-> <<>>, addresses |-> <<>>, port |-> <<>>, vendorId |-> <<>>,
     productId |-> <<>>, deviceType |-> <<>>, discriminator |-> <<>>,
     pairingHint |-> <<>>, instanceName |-> <<>>, commissioningMode |-> <<>>,
     supportsCommissionerGeneratedPasscode |-> FALSE]

\* if (address) { currentDevice.addresses.push(address) }
PushAddress002(dev, address) ==
    IF address # <<>> THEN [dev EXCEPT !.addresses = Append(@, address)] ELSE dev

\* the if / else-if chain that fills currentDevice from one cleaned line
ParseField002(dev, cleanedLine) ==
    LET v == extractValue(cleanedLine)
    IN  IF StartsWith(cleanedLine, Label("Hostname")) THEN [dev EXCEPT !.name = v]
        ELSE IF StartsWith(cleanedLine, IpLabel) THEN PushAddress002(dev, v)
        ELSE IF StartsWith(cleanedLine, Label("Port")) THEN [dev EXCEPT !.port = v]
        ELSE IF StartsWith(cleanedLine, Label("Vendor ID")) THEN [dev EXCEPT !.vendorId = v]
        ELSE IF StartsWith(cleanedLine, Label("Product ID")) THEN [dev EXCEPT !.productId = v]
        ELSE IF StartsWith(cleanedLine, Label("Device Type")) THEN [dev EXCEPT !.deviceType = v]
        ELSE IF StartsWith(cleanedLine, Label("Long Discriminator"))
             THEN [dev EXCEPT !.discriminator = v]
        ELSE IF StartsWith(cleanedLine, Label("Pairing Hint")) THEN [dev EXCEPT !.pairingHint = v]
        ELSE IF StartsWith(cleanedLine, Label("Instance Name"))
             THEN [dev EXCEPT !.instanceName = v]
        ELSE IF StartsWith(cleanedLine, Label("Commissioning Mode"))
             THEN [dev EXCEPT !.commissioningMode = v]
        ELSE IF StartsWith(cleanedLine, Label("Supports Commissioner Generated Passcode"))
             THEN [dev EXCEPT !.supportsCommissionerGeneratedPasscode =
                                  (ToLowerCase(v) = <<"true">>)]
        ELSE dev

\* one pass of the for loop.  st.devices is the array, st.currentDevice is
\* <<>> for null and <<d>> for the object d
ParseLine002(st, line) ==
    LET cleanedLine == cleanLine(line)
    IN  IF cleanedLine = Marker
        THEN [devices |-> st.devices \o st.currentDevice, currentDevice |-> <<NewDevice002>>]
        ELSE IF st.currentDevice = <<>> THEN st
        ELSE [st EXCEPT !.currentDevice = <<ParseField002(st.currentDevice[1], cleanedLine)>>]

RECURSIVE ParseLoop002(_, _)
ParseLoop002(st, lines) ==
    IF lines = <<>> THEN st
    ELSE ParseLoop002(ParseLine002(st, Head(lines)), Tail(lines))

\* devices.map((device, index) => ({ ...device, nodeId: (index + 1).toString(), type: 'wifi' }))
AssignNodeIds002(devices) ==
    [i \in 1..Len(devices) |-> Spread(devices[i], [nodeId |-> toString(i), type |-> "wifi"])]

\* let currentDevice = null
InitialDevice002 == <<>>

\* a faulty body: no guard on blank input, and the loop starts inside a record
ParseBody002_OpenRecord(result) ==
    IF result.kind # "string"
    THEN [raised |-> TRUE, value |-> <<>>]
    ELSE LET st == ParseLoop002([devices |-> <<>>, currentDevice |-> <<NewDevice002>>],
                                Split(result.text, <<"\n">>))
         IN  [raised |-> FALSE,
              value  |-> AssignNodeIds002(st.devices \o st.currentDevice)]

\* the body of the try block: raised tells whether it threw
ParseBody002(result) ==
    IF IsFalsy(result) \/ (result.kind = "string" /\ Trim(result.text) = <<>>)
    THEN [raised |-> FALSE, value |-> <<>>]
    ELSE IF result.kind # "string"
    THEN [raised |-> TRUE, value |-> <<>>]      \* result.trim is not a function
    ELSE LET st == ParseLoop002([devices |-> <<>>, currentDevice |-> InitialDevice002],
                                Split(result.text, <<"\n">>))
         IN  [raised |-> FALSE,
              value  |-> AssignNodeIds002(st.devices \o st.currentDevice)]


(***************************************************************************)
(* parseDiscoveryResult of src/matterServer/server.js (third server)       *)
(***************************************************************************)
\* str.replace(/\x1b\[[0-9;]*m/g, ''): one pass from position i, left to right
RECURSIVE RemoveAnsiFrom(_, _)
RemoveAnsiFrom(str, i) ==
    IF i > Len(str) THEN <<>>
    ELSE LET j == Run(str, i + 1, AnsiParams)
         IN  IF str[i] = "ESC[" /\ At(str, j) = "m"
             THEN RemoveAnsiFrom(str, j + 1)
             ELSE <<str[i]>> \o RemoveAnsiFrom(str, i + 1)

removeAnsiEscapes(str) == RemoveAnsiFrom(str, 1)

\* extractValue(line, key) of the third server
extractValueKey(line, key) ==
    LET parts == Split(line, Label(key))
    IN  IF Len(parts) > 1 THEN removeAnsiEscapes(Trim(parts[2])) ELSE <<>>

\* cleanLine.split('IP Address #')[1].split(':').slice(1).join(':').trim()
ExtractAddressC(cleanedLine) ==
    LET pieces == Split(Split(cleanedLine, IpLabel)[2], Colon)
    IN  Trim(Join(Tail(pieces), Colon))

NewDeviceC ==
    [nodeId |-> <<>>, name |-> <<>>, setupPinCode |-> <<>>, setupDiscriminator |-> <<>>,
     vendorId |-> <<>>, productId |-> <<>>, deviceType |-> <<>>, instanceName |-> <<>>,
     addresses |-> <<>>, port |-> <<>>, pairingHint |-> <<>>, commissioningMode |-> <<>>,
     type |-> "wifi"]

\* if (address && address !== 'not present') { currentDevice.addresses.push(address) }
PushAddressC(dev, address) ==
    IF address # <<>> /\ address # NotPresent
    THEN [dev EXCEPT !.addresses = Append(@, address)]
    ELSE dev

ParseFieldC(dev, cleanedLine) ==
    IF Includes(cleanedLine, Label("Hostname"))
    THEN [dev EXCEPT !.name = extractValueKey(cleanedLine, "Hostname")]
    ELSE IF Includes(cleanedLine, IpLabel)
    THEN PushAddressC(dev, ExtractAddressC(cleanedLine))
    ELSE IF Includes(cleanedLine, Label("Port"))
    THEN [dev EXCEPT !.port = extractValueKey(cleanedLine, "Port")]
    ELSE IF Includes(cleanedLine, Label("Long Discriminator"))
    THEN [dev EXCEPT !.setupDiscriminator = extractValueKey(cleanedLine, "Long Discriminator")]
    ELSE IF Includes(cleanedLine, Label("Vendor ID"))
    THEN [dev EXCEPT !.vendorId = extractValueKey(cleanedLine, "Vendor ID")]
    ELSE IF Includes(cleanedLine, Label("Product ID"))
    THEN [dev EXCEPT !.productId = extractValueKey(cleanedLine, "Product ID")]
    ELSE IF Includes(cleanedLine, Label("Device Type"))
    THEN [dev EXCEPT !.deviceType = extractValueKey(cleanedLine, "Device Type")]
    ELSE IF Includes(cleanedLine, Label("Instance Name"))
    THEN [dev EXCEPT !.instanceName = extractValueKey(cleanedLine, "Instance Name")]
    ELSE IF Includes(cleanedLine, Label("Pairing Hint"))
    THEN [dev EXCEPT !.pairingHint = extractValueKey(cleanedLine, "Pairing Hint")]
    ELSE IF Includes(cleanedLine, Label("Commissioning Mode"))
    THEN [dev EXCEPT !.commissioningMode = extractValueKey(cleanedLine, "Commissioning Mode")]
    ELSE dev

\* one pass of the for loop of the third server
ParseLineC(st, line) ==
    IF ~Includes(line, DisTag) THEN st
    ELSE LET cleanedLine == removeAnsiEscapes(Trim(line))
         IN  IF Includes(cleanedLine, Marker)
             THEN [devices |-> st.devices \o st.currentDevice,
                   currentDevice |-> <<NewDeviceC>>]
             ELSE IF st.currentDevice = <<>> THEN st
             ELSE [st EXCEPT !.currentDevice = <<ParseFieldC(st.currentDevice[1], cleanedLine)>>]

RECURSIVE ParseLoopC(_, _)
ParseLoopC(st, lines) ==
    IF lines = <<>> THEN st
    ELSE ParseLoopC(ParseLineC(st, Head(lines)), Tail(lines))

\* devices.map((device, index) => ({ ...device, nodeId: (index + 1).toString() }))
AssignNodeIdsC(devices) ==
    [i \in 1..Len(devices) |-> Spread(devices[i], [nodeId |-> toString(i)])]

ParseBodyC(result) ==
    IF IsFalsy(result) \/ (result.kind = "string" /\ Trim(result.text) = <<>>)
    THEN [raised |-> FALSE, value |-> <<>>]
    ELSE IF result.kind # "string"
    THEN [raised |-> TRUE, value |-> <<>>]      \* result.trim is not a function
    ELSE LET st == ParseLoopC([devices |-> <<>>, currentDevice |-> <<>>],
                              Split(result.text, <<"\n">>))
         IN  [raised |-> FALSE,
              value  |-> AssignNodeIdsC(st.devices \o st.currentDevice)]

(***************************************************************************)
(* parseDiscoveryResult: try { body } catch (error) { log; return [] }.    *)
(* threw tells whether an exception leaves the function, caught whether    *)
(* the catch block ran.                                                    *)
(***************************************************************************)
ParseBody(v, result) == IF v = "part_002" THEN ParseBody002(result) ELSE ParseBodyC(result)

\* a faulty catch block: catch (error) { logToFile(...); throw error; }
ParseCatch_Rethrow == [threw |-> TRUE, caught |-> TRUE, devices |-> <<>>]

\* catch (error) { logToFile(...); return []; }
ParseCatch == [threw |-> FALSE, caught |-> TRUE, devices |-> <<>>]

parseDiscoveryResult(v, result) ==
    LET body == ParseBody(v, result)
    IN  IF body.raised THEN ParseCatch
        ELSE [threw |-> FALSE, caught |-> FALSE, devices |-> body.value]


(***************************************************************************)
(* Tool output.  A discovery output is written line by line; a line is     *)
(* described by its decoration, its label and the text after the label:    *)
(*   deco  "plain"    the text alone                                       *)
(*         "tagged"   behind the log prefix "[1.5] [1:2] [DIS] "           *)
(*         "coloured" the tagged line inside ESC[0;32m ... ESC[0m          *)
(*   label "marker", "junk" (value is the whole text), or a field label    *)
(***************************************************************************)
MaxLines == 3

LogPrefix == <<"[", "1", ".", "5", "]", " ", "[", "1", ":", "2", "]", " ", "[", "DIS", "]", " ">>

ColourOn == <<"ESC[", "0", ";", "3", "2", "m">>

ColourOff == <<"ESC[", "0", "m">>

LineBody(l) ==
    IF l.label = "marker" THEN Marker
    ELSE IF l.label = "junk" THEN l.value
    ELSE IF l.label = "IP Address #" THEN <<"IP Address #", "1", ":">> \o l.value
    ELSE Label(l.label) \o l.value

RenderLine(l) ==
    IF l.deco = "plain" THEN LineBody(l)
    ELSE IF l.deco = "tagged" THEN LogPrefix \o LineBody(l)
    ELSE ColourOn \o LogPrefix \o LineBody(l) \o ColourOff

Render(ls) == Join([i \in 1..Len(ls) |-> RenderLine(ls[i])], <<"\n">>)

L(deco, label, value) == [deco |-> deco, label |-> label, value |-> value]

LineShapes ==
    { L("plain", "marker", <<>>), L("tagged", "marker", <<>>), L("coloured", "marker", <<>>),
      L("plain", "Hostname", <<" ", "light1">>),
      L("tagged", "Hostname", <<" ", "plug2", " ">>),
      L("plain", "Hostname", <<" ", "ESC[", "0", "m", "light1">>),
      L("plain", "IP Address #", <<" ", "10.0.0.5">>),
      L("tagged", "IP Address #", <<" ", "fe80", ":", ":", "1">>),
      L("plain", "IP Address #", <<" ", "not present">>),
      L("tagged", "IP Address #", <<" ", "not present">>),
      L("tagged", "IP Address #", <<>>),
      L("tagged", "IP Address #", <<" ", "ESC[", "ESC[", "0", "m", "0", "m", "10.0.0.5">>),
      L("tagged", "Port", <<" ", "5", "5", "4", "0">>),
      L("plain", "junk", <<"light1">>),
      L("tagged", "junk", <<"Mystery Key", ":", " ", "light1">>),
      L("plain", "junk", <<" ">>) }

LineSeqs == UNION {[1..n -> LineShapes] : n \in 0..MaxLines}

ParserVariants == {"part_002", "server_c"}

VARIABLES
    variant,       \* which of the servers runs
    scanLines,     \* the lines the tool wrote (what `result` was rendered from)
    result,        \* the value handed to parseDiscoveryResult
    parsed,        \* what parseDiscoveryResult returned
    pc,            \* "call" before parseDiscoveryResult is applied, "returned" after
    env,           \* process.env: WIFI_SSID and WIFI_PASSWORD
    deviceState,   \* the Map deviceState: node id -> entry
    pending,       \* the requests whose handler awaits executeMatterCommand
    parseOf,       \* parseDiscoveryResult tabulated over the outputs the tool may print
    lastResponse,  \* the response sent last
    proc,          \* the process: its listener, its shutdown timers, its exit code
    call           \* the call of a pure function under study: its arguments and its value

parserVars == <<scanLines, result, parsed, pc>>

serverVars == <<env, deviceState, pending, parseOf, lastResponse, proc, call>>

vars == <<variant, scanLines, result, parsed, pc, env, deviceState, pending, parseOf,
         lastResponse, proc, call>>

(***************************************************************************)
(* The server state after start-up                                         *)
(***************************************************************************)
MaxPending == 2

\* new Date().toISOString(): no handler reads a timestamp back
now == <<"2024-01-01T00:00:00.000Z">>

\* new Map()
EmptyMap == <<>>

\* a faulty set: the map is replaced by one holding the new key alone
MapSet_Alone(m, k, v) == [x \in {k} |-> v]

\* Map.prototype.set
MapSet(m, k, v) == [x \in (DOMAIN m) \cup {k} |-> IF x = k THEN v ELSE m[x]]

Idle == [kind |-> "idle"]

NoResponse == [endpoint |-> "none", http |-> 0]

NoEnv == [WIFI_SSID |-> <<>>, WIFI_PASSWORD |-> <<>>]

\* no pure function is studied in the runs of the servers
NoCall == [fn |-> "none"]

\* const server = app.listen(PORT, ...): the listener is open, no signal was
\* handled, no close callback and no timer is registered, the process runs
\* (exit is the set of exit codes the process ended with: none yet)
Listening == [listening |-> TRUE, signals |-> 0, closeCallbacks |-> 0, timers |-> 0, exit |-> {}]

\* what `discover commissionables` may print
ScanOutputs ==
    { <<>>,
      <<L("tagged", "marker", <<>>), L("tagged", "Hostname", <<" ", "plug2", " ">>),
        L("tagged", "marker", <<>>), L("tagged", "IP Address #", <<" ", "fe80", ":", ":", "1">>)>> }

\* the outputs of the runs that study the scan alone: one more, with one record
ScanOutputsWide ==
    ScanOutputs \cup
        { <<L("tagged", "marker", <<>>), L("tagged", "Port", <<" ", "5", "5", "4", "0">>)>> }

\* what parseDiscoveryResult makes of each output, per server that parses
ScanResult ==
    [v \in ParserVariants |->
        [out \in ScanOutputsWide |-> parseDiscoveryResult(v, Str(Render(out)))]]

ServerStart ==
    /\ deviceState = EmptyMap
    /\ pending = [s \in 1..MaxPending |-> Idle]
    /\ parseOf = ScanResult
    /\ lastResponse = NoResponse
    /\ proc = Listening
    /\ call = NoCall

NotParsed == [threw |-> FALSE, caught |-> FALSE, devices |-> <<>>]

ParseInit ==
    /\ variant \in ParserVariants
    /\ scanLines \in LineSeqs
    /\ result \in {Str(Render(scanLines))}
                    \cup (IF scanLines = <<>> THEN {Undefined, NonString} ELSE {})
    /\ parsed = NotParsed
    /\ pc = "call"
    /\ env = NoEnv
    /\ ServerStart

ParseCall ==
    /\ pc = "call"
    /\ parsed' = parseDiscoveryResult(variant, result)
    /\ pc' = "returned"
    /\ UNCHANGED <<variant, scanLines, result>>
    /\ UNCHANGED serverVars

ParseNext == ParseCall

SpecParse == ParseInit /\ [][ParseNext]_vars


(***************************************************************************)
(* What the tool wrote, read off scanLines (not off the parsers)           *)
(***************************************************************************)
\* positions of the marker lines, in input order
MarkerPositions == {i \in 1..Len(scanLines) : scanLines[i].label = "marker"}

MarkerCount == Cardinality(MarkerPositions)

\* the position of the k-th marker line
MarkerAt(k) ==
    CHOOSE i \in MarkerPositions : Cardinality({j \in MarkerPositions : j <= i}) = k

\* the positions of the lines of the k-th block, after its marker line
BlockLines(k) ==
    {i \in 1..Len(scanLines) :
        /\ i > MarkerAt(k)
        /\ \A j \in MarkerPositions : j > MarkerAt(k) => i < j}

\* every line is the bare text, as in the scenarios of the specification
AllPlain == \A i \in 1..Len(scanLines) : scanLines[i].deco = "plain"

\* s holds an ANSI colour escape sequence ESC [ ... m
HasAnsi(s) ==
    \E i \in 1..Len(s) : s[i] = "ESC[" /\ At(s, Run(s, i + 1, AnsiParams)) = "m"

Returned == pc = "returned"

\* C1: every discovery output yields as many records as it has marker lines,
\* and the record at position i has nodeId toString(i).  Stated for outputs
\* whose lines are the bare text.
C1_RecordPerMarker ==
    (Returned /\ result.kind = "string" /\ AllPlain) =>
        /\ Len(parsed.devices) = MarkerCount
        /\ \A i \in 1..Len(parsed.devices) : parsed.devices[i].nodeId = toString(i)

\* C2: a block that begins with the marker line and holds one line
\* "Hostname: X" yields a record whose name is X trimmed.  Stated for outputs
\* whose lines are the bare text.
C2_HostnameIsName ==
    (Returned /\ result.kind = "string" /\ AllPlain) =>
        \A k \in 1..MarkerCount :
            \A i \in BlockLines(k) :
                (/\ scanLines[i].label = "Hostname"
                 /\ \A j \in BlockLines(k) : scanLines[j].label = "Hostname" => j = i)
                => /\ Len(parsed.devices) >= k
                   /\ parsed.devices[k].name = Trim(scanLines[i].value)

\* the addresses the k-th block announces: the trimmed values of its
\* "IP Address #N:" lines, in order, without the empty ones and "not present"
RECURSIVE AnnouncedFrom(_, _)
AnnouncedFrom(k, i) ==
    IF i > Len(scanLines) THEN <<>>
    ELSE LET a == Trim(scanLines[i].value)
         IN  (IF /\ i \in BlockLines(k)
                 /\ scanLines[i].label = "IP Address #"
                 /\ a # <<>> /\ a # NotPresent
              THEN <<a>> ELSE <<>>) \o AnnouncedFrom(k, i + 1)

\* C3: in an open block "IP Address #N: not present" and an empty value append
\* nothing, every other value is appended as it is, in encounter order.
\* Stated for outputs whose lines are the bare text.
C3_AddressesAppended ==
    (Returned /\ result.kind = "string" /\ AllPlain) =>
        \A k \in 1..Len(parsed.devices) :
            parsed.devices[k].addresses = AnnouncedFrom(k, 1)

\* the string-valued fields of a record
TextFields(d) ==
    (DOMAIN d) \ {"addresses", "type", "supportsCommissionerGeneratedPasscode"}

\* C4: no field value of a returned record holds an ANSI escape sequence
C4_NoAnsiInFields ==
    Returned =>
        \A k \in 1..Len(parsed.devices) :
            /\ \A f \in TextFields(parsed.devices[k]) : ~HasAnsi(parsed.devices[k][f])
            /\ \A a \in 1..Len(parsed.devices[k].addresses) :
                   ~HasAnsi(parsed.devices[k].addresses[a])

\* the input is empty, absent or whitespace only
BlankInput ==
    \/ result.kind = "undefined"
    \/ result.kind = "string" /\ \A i \in 1..Len(result.text) : result.text[i] \in Spaces

\* C5: empty, absent and whitespace-only input give the empty sequence
C5_BlankGivesEmpty == (Returned /\ BlankInput) => parsed.devices = <<>>

\* C5 witness: a non-empty input of whitespace only was parsed
C5_Witness == Returned /\ BlankInput /\ result.kind = "string" /\ Len(result.text) > 1

\* C6: no exception leaves parseDiscoveryResult, and when one occurred inside
\* it the returned sequence is empty
C6_NeverThrows ==
    Returned => /\ ~parsed.threw
                /\ parsed.caught => parsed.devices = <<>>

\* C6 witness: an exception occurred while parsing and the call returned
C6_Witness == Returned /\ parsed.caught /\ result.kind = "object"


(***************************************************************************)
(* The servers.  A handler runs in two steps: from the arrival of the      *)
(* request to `await executeMatterCommand(command)` (validation, registry  *)
(* lookup; an early return sends the response at once), and from the       *)
(* settling of that promise to the response.  Between the two steps the    *)
(* handlers of other requests run.                                         *)
(***************************************************************************)
Variants == {"part_001", "server_a", "server_b", "server_c", "part_002", "controller"}

\* the servers with /api/pairing/code and /api/commissioning/wifi
FamilyA == {"part_001", "server_a", "server_b"}

\* a field the request body does not have (or has as the empty string)
Absent == <<>>

\* MATTER_CONFIG.defaultNodeId
defaultNodeId == <<"1">>

NodeIds == {<<"1">>, <<"3">>}

SetupCodes == {<<"34970112332">>}

Discriminators == {<<"3840">>}

Ssids == {<<"home">>}

Passwords == {<<"secret">>}

Envs == {NoEnv, [WIFI_SSID |-> <<"envnet">>, WIFI_PASSWORD |-> <<"secret">>]}

ScanEndpoints ==
    IF variant \in FamilyA THEN {"/api/discovery/scan"}
    ELSE IF variant \in ParserVariants THEN {"/api/discovery/scan", "/api/device/search"}
    ELSE {}

(***************************************************************************)
(* Errors of executeMatterCommand and handleMatterError.  The texts of the *)
(* fixed messages are Korean in the source; each is one token here.        *)
(***************************************************************************)
\* the servers whose executeMatterCommand tests fs.existsSync(chipToolFullPath)
ChecksTool == {"server_a", "server_c", "part_002"}

\* path.join(MATTER_CONFIG.sdkPath, MATTER_CONFIG.chipToolPath)
chipToolFullPath == <<"/home/ubuntu/connectedhomeip/out/chip-tool/chip-tool">>

\* an Error object: its message and its stderr property (<<>> when it has none)
Err(message, stderr) == [message |-> message, stderr |-> stderr]

\* new Error(`chip-tool does not exist: ${chipToolFullPath}`)
MissingToolError == Err(<<"chip-tool does not exist", ": ">> \o chipToolFullPath, <<>>)

\* what the shell or the tool may have written to stderr when exec reports an error
StderrTexts ==
    { <<>>,
      <<"CHIP:BLE", ": ", "scan failed">>,
      <<"CHIP Error ", "0x", "00000032", ": ", "Timeout">>,
      <<"/bin/sh: 1: ">> \o chipToolFullPath \o <<": ", "not found">> }

\* the error exec hands to its callback: `Command failed: ${cmd}\n${stderr}`;
\* the object has no stderr property
ExecError(text) == Err(<<"Command failed", ": ", "cmd", "\n">> \o text, <<>>)

\* the error of the child's 'error' event (the shell could not be spawned)
SpawnError == Err(<<"spawn /bin/sh ENOENT">>, <<>>)

HexRuns == {"00000032", "000000AC"}

\* (text).match(/CHIP Error (0x[0-9a-fA-F]+)/): the captured group, <<>> without match
ChipErrorMatch(text) ==
    LET at == {i \in 1..Len(text) : /\ text[i] = "CHIP Error "
                                     /\ At(text, i + 1) = "0x"
                                     /\ At(text, i + 2) \in HexRuns}
    IN  IF at = {} THEN <<>>
        ELSE LET i == CHOOSE j \in at : \A k \in at : j <= k
             IN  <<"0x", text[i + 2]>>

\* the pattern of the first test of handleMatterError
TimeoutPattern(v) ==
    IF v = "server_a" THEN <<"Timeout">>
    ELSE <<"CHIP Error ", "0x", "00000032", ": ", "Timeout">>

Details(code, message) == [code |-> code, message |-> message]

\* handleMatterError of part_001
handleMatterError001(error) ==
    IF Includes(error.message, <<"CHIP:BLE">>)
    THEN Details("BLE_ERROR", <<"BLE connection error">>)
    ELSE IF Includes(error.message, <<"CHIP:DMG">>)
    THEN Details("DATA_MODEL_ERROR", <<"data model error">>)
    ELSE IF Includes(error.message, <<"not found">>)
    THEN Details("COMMAND_NOT_FOUND", <<"Matter SDK command not found">>)
    ELSE Details("UNKNOWN_ERROR", <<"unknown error", ": ">> \o error.message)

\* handleMatterError of the second server of server.js
handleMatterErrorB(error) ==
    IF Includes(error.message, <<"CHIP:BLE">>)
    THEN Details("BLE_ERROR", <<"BLE connection error">>)
    ELSE IF Includes(error.message, <<"CHIP:DMG">>)
    THEN Details("DATA_MODEL_ERROR", <<"data model error">>)
    ELSE Details("UNKNOWN_ERROR", <<"unknown error">>)

\* handleMatterError of the first server of server.js
handleMatterErrorA(error) ==
    IF \/ Includes(error.message, TimeoutPattern("server_a"))
       \/ Includes(error.stderr, TimeoutPattern("server_a"))
    THEN Details("TIMEOUT_ERROR", <<"command timed out">>)
    ELSE IF Includes(error.message, <<"CHIP:BLE">>)
    THEN Details("BLE_ERROR", <<"BLE connection error">>)
    ELSE IF Includes(error.message, <<"CHIP:DMG">>)
    THEN Details("DATA_MODEL_ERROR", <<"data model error">>)
    ELSE IF Includes(error.message, <<"not found">>)
    THEN Details("COMMAND_NOT_FOUND", <<"Matter SDK command not found">>)
    ELSE IF error.stderr # <<>>
    THEN Details("MATTER_SDK_ERROR", <<"Matter SDK error", ": ">> \o error.stderr)
    ELSE Details("UNKNOWN_ERROR", <<"unknown error", ": ">> \o error.message)

\* handleMatterError of the third server of server.js and of part_002
handleMatterErrorC(v, error) ==
    LET chipErrorMatch ==
            ChipErrorMatch(IF error.message # <<>> THEN error.message ELSE error.stderr)
    IN  IF \/ Includes(error.message, TimeoutPattern(v))
           \/ Includes(error.stderr, TimeoutPattern(v))
        THEN Spread(Details("TIMEOUT_ERROR", <<"command timed out">>),
                    [errorCode |-> <<"0x", "00000032">>])
        ELSE IF Includes(error.message, <<"CHIP:BLE">>)
        THEN Details("BLE_ERROR", <<"BLE connection error">>)
        ELSE IF Includes(error.message, <<"CHIP:DMG">>)
        THEN Details("DATA_MODEL_ERROR", <<"data model error">>)
        ELSE IF Includes(error.message, <<"not found">>)
        THEN Details("COMMAND_NOT_FOUND", <<"Matter SDK command not found">>)
        ELSE IF chipErrorMatch # <<>>
        THEN Spread(Details("MATTER_SDK_ERROR", <<"Matter SDK error">>),
                    [errorCode |-> chipErrorMatch])
        ELSE IF error.stderr # <<>>
        THEN Details("MATTER_SDK_ERROR", <<"Matter SDK error", ": ">> \o error.stderr)
        ELSE Details("UNKNOWN_ERROR", <<"unknown error", ": ">> \o error.message)

handleMatterError(v, error) ==
    IF v = "part_001" THEN handleMatterError001(error)
    ELSE IF v = "server_b" THEN handleMatterErrorB(error)
    ELSE IF v = "server_a" THEN handleMatterErrorA(error)
    ELSE handleMatterErrorC(v, error)

Has(m, k) == k \in DOMAIN m

FreeSlots == {s \in 1..MaxPending : pending[s].kind = "idle"}

FirstFree == CHOOSE s \in FreeSlots : \A t \in FreeSlots : s <= t

\* what fs.existsSync(chipToolFullPath) may answer; the servers without the
\* test go on to exec
ToolChecks == IF variant \in ChecksTool THEN BOOLEAN ELSE {TRUE}

\* the errors with which exec may end a command that was started
ExecErrors == {ExecError(text) : text \in StderrTexts} \cup {SpawnError}

\* a faulty catch block: the envelope lacks its status field
ErrorResponse_Bare(ep, error) ==
    [endpoint |-> ep, http |-> 500, body |-> handleMatterError(variant, error)]

\* catch (error) { res.status(500).json({ status: "error", ...handleMatterError(error) }) };
\* in controller.js: res.status(500).json({ error: err.message })
ErrorResponse(ep, error) ==
    [endpoint |-> ep, http |-> 500,
     body |-> IF variant = "controller" THEN [error |-> error.message]
              ELSE Spread([status |-> "error"], handleMatterError(variant, error))]

\* the handler reaches `await executeMatterCommand(command)`
Await(req) ==
    /\ FreeSlots # {}
    /\ \E exists \in ToolChecks :
           IF exists
           THEN /\ pending' = [pending EXCEPT ![FirstFree] = Spread(req, [execs |-> 1])]
                /\ UNCHANGED <<deviceState, lastResponse>>
           ELSE /\ lastResponse' = ErrorResponse(req.endpoint, MissingToolError)
                /\ UNCHANGED <<deviceState, pending>>

\* return res.status(code).json(...) before any command is built
Reject(ep, code) ==
    /\ lastResponse' = [endpoint |-> ep, http |-> code]
    /\ UNCHANGED <<deviceState, pending>>

Frame == UNCHANGED <<variant, env, parseOf, proc, call>> /\ UNCHANGED parserVars

(***************************************************************************)
(* Discovery scan: /api/discovery/scan and /api/device/search              *)
(***************************************************************************)
\* a faulty entry: { nodeId: device.nodeId, status: 'discovered', timestamp }
DiscoveredEntry_IdOnly(device, ts) ==
    [nodeId |-> device.nodeId, status |-> "discovered", timestamp |-> ts]

\* { ...device, status: 'discovered', timestamp: new Date().toISOString() }
DiscoveredEntry(device, ts) == Spread(device, [status |-> "discovered", timestamp |-> ts])

\* a faulty write: deviceState.set(device.nodeId, { ...deviceState.get(device.nodeId),
\* ...device, status: 'discovered', timestamp })
UpsertDiscovered_Merge(ds, device, ts) ==
    MapSet(ds, device.nodeId,
           Spread(IF device.nodeId \in DOMAIN ds THEN ds[device.nodeId] ELSE <<>>,
                  DiscoveredEntry(device, ts)))

\* a faulty write: the registry is replaced by the one entry
UpsertDiscovered_Alone(ds, device, ts) ==
    MapSet_Alone(ds, device.nodeId, DiscoveredEntry(device, ts))

\* deviceState.set(device.nodeId, { ... })
UpsertDiscovered(ds, device, ts) == MapSet(ds, device.nodeId, DiscoveredEntry(device, ts))

\* devices.forEach(device => { deviceState.set(...) })
RECURSIVE StoreDiscovered(_, _, _)
StoreDiscovered(ds, devices, ts) ==
    IF devices = <<>> THEN ds
    ELSE StoreDiscovered(UpsertDiscovered(ds, Head(devices), ts), Tail(devices), ts)

ScanStart(ep) ==
    /\ ep \in ScanEndpoints
    /\ Await([kind |-> "scan", endpoint |-> ep])
    /\ Frame

\* the command succeeded and printed `out`
ScanComplete(s, out) ==
    /\ pending[s].kind = "scan"
    /\ pending' = [pending EXCEPT ![s] = Idle]
    /\ IF variant \in FamilyA
       THEN /\ UNCHANGED deviceState
            /\ lastResponse' = [endpoint |-> pending[s].endpoint, http |-> 200,
                                devices |-> Render(out)]
       ELSE LET devices == parseOf[variant][out].devices
            IN  /\ deviceState' = StoreDiscovered(deviceState, devices, now)
                /\ lastResponse' = [endpoint |-> pending[s].endpoint, http |-> 200,
                                    devices |-> devices]
    /\ Frame

(***************************************************************************)
(* GET /api/discovery/list (part_002, server.js third server)              *)
(***************************************************************************)
\* a faulty map callback: the status is not looked up
WithState_Discovered(ds, device, ts) ==
    Spread(device, [status |-> "discovered", lastSeen |-> ts])

\* { ...device, status: state?.status || 'discovered',
\*   lastSeen: state?.timestamp || new Date().toISOString() }
WithState(ds, device, ts) ==
    LET state == IF Has(ds, device.nodeId) THEN ds[device.nodeId] ELSE <<>>
    IN  Spread(device,
               [status   |-> IF "status" \in DOMAIN state THEN state.status ELSE "discovered",
                lastSeen |-> IF "timestamp" \in DOMAIN state /\ state.timestamp # <<>>
                             THEN state.timestamp ELSE ts])

DiscoveryListStart ==
    /\ variant \in ParserVariants
    /\ Await([kind |-> "list", endpoint |-> "/api/discovery/list"])
    /\ Frame

\* `discover list` succeeded and printed `out`
DiscoveryListComplete(s, out) ==
    /\ pending[s].kind = "list"
    /\ pending' = [pending EXCEPT ![s] = Idle]
    /\ LET devices == parseOf[variant][out].devices
       IN  lastResponse' = [endpoint |-> pending[s].endpoint, http |-> 200,
                            devices |-> [i \in 1..Len(devices) |->
                                            WithState(deviceState, devices[i], now)]]
    /\ UNCHANGED deviceState
    /\ Frame

(***************************************************************************)
(* POST /api/pairing/code (part_001, server.js first and second server)    *)
(***************************************************************************)
PairingCodeBodies ==
    [nodeId : NodeIds \cup {Absent}, setupCode : SetupCodes \cup {Absent},
     discriminator : Discriminators]

\* a faulty entry: { status: "paired", discriminator, timestamp }
PairedEntry_NoCode(req, ts) ==
    [status |-> "paired", discriminator |-> req.discriminator, timestamp |-> ts]

\* { status: "paired", setupCode, discriminator, timestamp }
PairedEntry(req, ts) ==
    [status |-> "paired", setupCode |-> req.setupCode,
     discriminator |-> req.discriminator, timestamp |-> ts]

PairingCodeStart(b) ==
    /\ variant \in FamilyA
    /\ LET nodeId == IF b.nodeId = Absent THEN defaultNodeId ELSE b.nodeId
       IN  IF b.setupCode = Absent
           THEN Reject("/api/pairing/code", 400)
           ELSE Await([kind |-> "pairingCode", endpoint |-> "/api/pairing/code",
                       nodeId |-> nodeId, setupCode |-> b.setupCode,
                       discriminator |-> b.discriminator])
    /\ Frame

PairingCodeComplete(s) ==
    /\ pending[s].kind = "pairingCode"
    /\ pending' = [pending EXCEPT ![s] = Idle]
    /\ deviceState' = MapSet(deviceState, pending[s].nodeId, PairedEntry(pending[s], now))
    /\ lastResponse' = [endpoint |-> pending[s].endpoint, http |-> 200,
                        deviceInfo |-> deviceState'[pending[s].nodeId]]
    /\ Frame

(***************************************************************************)
(* POST /api/commissioning/wifi (part_001, server.js first and second)     *)
(***************************************************************************)
WifiBodies ==
    [nodeId : NodeIds \cup {Absent}, ssid : Ssids \cup {Absent},
     password : Passwords \cup {Absent}, discriminator : Discriminators]

\* { ...deviceInfo, status: "commissioned", network: { ssid, timestamp } }
CommissionedEntry(deviceInfo, ssid, ts) ==
    Spread(deviceInfo, [status |-> "commissioned",
                        network |-> [ssid |-> ssid, timestamp |-> ts]])

\* deviceState.get(nodeId) || {}
GetOrEmpty(ds, nodeId) == IF Has(ds, nodeId) THEN ds[nodeId] ELSE <<>>

CommissioningWifiStart(b) ==
    /\ variant \in FamilyA
    /\ LET nodeId == IF b.nodeId = Absent THEN defaultNodeId ELSE b.nodeId
       IN  IF b.ssid = Absent \/ b.password = Absent
           THEN Reject("/api/commissioning/wifi", 400)
           ELSE Await([kind |-> "commissioningWifi", endpoint |-> "/api/commissioning/wifi",
                       nodeId |-> nodeId, ssid |-> b.ssid, password |-> b.password,
                       discriminator |-> b.discriminator])
    /\ Frame

CommissioningWifiComplete(s) ==
    /\ pending[s].kind = "commissioningWifi"
    /\ pending' = [pending EXCEPT ![s] = Idle]
    /\ deviceState' = MapSet(deviceState, pending[s].nodeId,
                             CommissionedEntry(GetOrEmpty(deviceState, pending[s].nodeId),
                                               pending[s].ssid, now))
    /\ lastResponse' = [endpoint |-> pending[s].endpoint, http |-> 200,
                        deviceInfo |-> deviceState'[pending[s].nodeId]]
    /\ Frame


(***************************************************************************)
(* POST /api/device/pair (part_002)                                        *)
(***************************************************************************)
DevicePairBodies == [deviceId : NodeIds, manualPairingCode : SetupCodes \cup {Absent}]

\* { ...deviceInfo, manualPairingCode, status: 'paired', pairingTimestamp }
ManuallyPairedEntry(deviceInfo, manualPairingCode, ts) ==
    Spread(deviceInfo, [manualPairingCode |-> manualPairingCode, status |-> "paired",
                        pairingTimestamp |-> ts])

\* a faulty handler: no lookup before the command (deviceState.get(deviceId) || {})
DevicePairStart_NoLookup(b) ==
    /\ variant = "part_002"
    /\ IF b.manualPairingCode = Absent
       THEN Reject("/api/device/pair", 400)
       ELSE Await([kind |-> "devicePair", endpoint |-> "/api/device/pair",
                   nodeId |-> b.deviceId, manualPairingCode |-> b.manualPairingCode,
                   deviceInfo |-> GetOrEmpty(deviceState, b.deviceId)])
    /\ Frame

DevicePairStart(b) ==
    /\ variant = "part_002"
    /\ IF b.manualPairingCode = Absent
       THEN Reject("/api/device/pair", 400)
       ELSE IF ~Has(deviceState, b.deviceId)
       THEN Reject("/api/device/pair", 404)
       ELSE Await([kind |-> "devicePair", endpoint |-> "/api/device/pair",
                   nodeId |-> b.deviceId, manualPairingCode |-> b.manualPairingCode,
                   deviceInfo |-> deviceState[b.deviceId]])
    /\ Frame

DevicePairComplete(s) ==
    /\ pending[s].kind = "devicePair"
    /\ pending' = [pending EXCEPT ![s] = Idle]
    /\ deviceState' = MapSet(deviceState, pending[s].nodeId,
                             ManuallyPairedEntry(pending[s].deviceInfo,
                                                 pending[s].manualPairingCode, now))
    /\ lastResponse' = [endpoint |-> pending[s].endpoint, http |-> 200,
                        deviceInfo |-> deviceState'[pending[s].nodeId]]
    /\ Frame

(***************************************************************************)
(* POST /api/device/commission (part_002)                                  *)
(***************************************************************************)
DeviceCommissionBodies ==
    [deviceId : NodeIds, ssid : Ssids \cup {Absent}, password : Passwords \cup {Absent}]

\* a || b on strings
OrElse(a, b) == IF a # <<>> THEN a ELSE b

\* a faulty check: deviceInfo.status === 'commissioned'
NotPaired_OnlyCommissioned(deviceInfo) == deviceInfo.status = "commissioned"

\* deviceInfo.status !== 'paired'
NotPaired(deviceInfo) == deviceInfo.status # "paired"

DeviceCommissionStart(b) ==
    /\ variant = "part_002"
    /\ LET wifiSSID     == OrElse(b.ssid, env.WIFI_SSID)
           wifiPassword == OrElse(b.password, env.WIFI_PASSWORD)
       IN  IF ~Has(deviceState, b.deviceId)
           THEN Reject("/api/device/commission", 404)
           ELSE IF NotPaired(deviceState[b.deviceId])
           THEN Reject("/api/device/commission", 400)
           ELSE IF wifiSSID = <<>> \/ wifiPassword = <<>>
           THEN Reject("/api/device/commission", 400)
           ELSE Await([kind |-> "deviceCommission", endpoint |-> "/api/device/commission",
                       nodeId |-> b.deviceId, ssid |-> wifiSSID, password |-> wifiPassword,
                       deviceInfo |-> deviceState[b.deviceId]])
    /\ Frame

DeviceCommissionComplete(s) ==
    /\ pending[s].kind = "deviceCommission"
    /\ pending' = [pending EXCEPT ![s] = Idle]
    /\ deviceState' = MapSet(deviceState, pending[s].nodeId,
                             CommissionedEntry(pending[s].deviceInfo, pending[s].ssid, now))
    /\ lastResponse' = [endpoint |-> pending[s].endpoint, http |-> 200,
                        deviceInfo |-> deviceState'[pending[s].nodeId]]
    /\ Frame

(***************************************************************************)
(* POST /api/device/setup (server.js third server)                         *)
(***************************************************************************)
DeviceSetupBodies ==
    [nodeId : NodeIds, setupPinCode : SetupCodes \cup {Absent},
     setupDiscriminator : Discriminators, ssid : Ssids \cup {Absent},
     password : Passwords]

\* a faulty entry: the password of the request is kept with the network
SetupEntry_KeepsPassword(deviceInfo, req, ts) ==
    Spread(CommissionedEntry(deviceInfo, req.ssid, ts),
           [setupPinCode |-> req.setupPinCode, setupDiscriminator |-> req.setupDiscriminator,
            password |-> req.password])

\* { ...deviceInfo, status: 'commissioned', network: {...}, setupPinCode, setupDiscriminator }
SetupEntry(deviceInfo, req, ts) ==
    Spread(CommissionedEntry(deviceInfo, req.ssid, ts),
           [setupPinCode |-> req.setupPinCode, setupDiscriminator |-> req.setupDiscriminator])

\* the deviceInfo of the response: { ...updatedDeviceInfo, network: { ssid, timestamp } }
SetupResponseInfo(updatedDeviceInfo, ssid, ts) ==
    Spread(updatedDeviceInfo, [network |-> [ssid |-> ssid, timestamp |-> ts]])

DeviceSetupStart(b) ==
    /\ variant = "server_c"
    /\ IF b.setupPinCode = Absent \/ b.ssid = Absent \/ b.password = Absent
       THEN Reject("/api/device/setup", 400)
       ELSE IF ~Has(deviceState, b.nodeId)
       THEN Reject("/api/device/setup", 404)
       ELSE Await([kind |-> "deviceSetup", endpoint |-> "/api/device/setup",
                   nodeId |-> b.nodeId, setupPinCode |-> b.setupPinCode,
                   setupDiscriminator |-> b.setupDiscriminator,
                   ssid |-> b.ssid, password |-> b.password,
                   deviceInfo |-> deviceState[b.nodeId]])
    /\ Frame

DeviceSetupComplete(s) ==
    /\ pending[s].kind = "deviceSetup"
    /\ pending' = [pending EXCEPT ![s] = Idle]
    /\ LET updatedDeviceInfo == SetupEntry(pending[s].deviceInfo, pending[s], now)
       IN  /\ deviceState' = MapSet(deviceState, pending[s].nodeId, updatedDeviceInfo)
           /\ lastResponse' = [endpoint |-> pending[s].endpoint, http |-> 200,
                               deviceInfo |-> SetupResponseInfo(updatedDeviceInfo,
                                                                pending[s].ssid, now)]
    /\ Frame

(***************************************************************************)
(* POST /api/pairing/code of controller.js: no registry, the command is    *)
(* handed to exec and the callback answers                                 *)
(***************************************************************************)
ControllerBodies ==
    [nodeId : {defaultNodeId, Absent}, manualPairingCode : SetupCodes \cup {Absent},
     discriminator : Discriminators, deviceAddress : {<<"BLE">>, Absent},
     networkType : {"wifi", "thread", "none"}]

\* `${x}` in a template literal: an undefined x is written as "undefined"
Tpl(x) == IF x = Absent THEN <<"undefined">> ELSE x

\* process.env[name]
EnvVar(name) == IF name \in DOMAIN env THEN env[name] ELSE <<>>

\* the words of a command line, joined by single spaces
Words(ws) == Join(ws, <<" ">>)

\* the command of controller.js for body b; <<>> when the handler returns first
ControllerCommand(b) ==
    IF b.deviceAddress = <<"BLE">>
    THEN IF b.networkType = "wifi"
         THEN Words(<< <<"chip-tool">>, <<"pairing">>, <<"ble-wifi">>, Tpl(b.nodeId),
                       Tpl(b.discriminator), OrElse(EnvVar("WIFI_SSID"), <<"TestSSID">>),
                       OrElse(EnvVar("WIFI_PASSWORD"), <<"TestPassword">>) >>)
         ELSE IF b.networkType = "thread"
         THEN Words(<< <<"chip-tool">>, <<"pairing">>, <<"ble-thread">>, Tpl(b.nodeId),
                       Tpl(b.discriminator),
                       OrElse(EnvVar("THREAD_DATASET"), <<"hex:...">>) >>)
         ELSE <<>>
    ELSE Words(<< <<"chip-tool">>, <<"pairing">>, <<"code">>, Tpl(b.nodeId),
                  Tpl(b.manualPairingCode) >>)

ControllerPairingStart(b) ==
    /\ variant = "controller"
    /\ IF ControllerCommand(b) = <<>>
       THEN Reject("/api/pairing/code", 400)
       ELSE Await([kind |-> "controllerPairing", endpoint |-> "/api/pairing/code",
                   command |-> ControllerCommand(b)])
    /\ Frame

\* exec's callback without err: res.json({ result: stdout })
ControllerPairingComplete(s) ==
    /\ pending[s].kind = "controllerPairing"
    /\ pending' = [pending EXCEPT ![s] = Idle]
    /\ lastResponse' = [endpoint |-> pending[s].endpoint, http |-> 200]
    /\ UNCHANGED deviceState
    /\ Frame

(***************************************************************************)
(* The promise of executeMatterCommand is rejected: every handler's catch  *)
(* block answers 500 and touches nothing else                              *)
(***************************************************************************)
\* a faulty handler: the command that failed is run once more
CommandFails_Retry(s, error) ==
    /\ pending[s].kind # "idle"
    /\ IF pending[s].execs < 2
       THEN /\ pending' = [pending EXCEPT ![s].execs = @ + 1]
            /\ UNCHANGED lastResponse
       ELSE /\ pending' = [pending EXCEPT ![s] = Idle]
            /\ lastResponse' = ErrorResponse(pending[s].endpoint, error)
    /\ UNCHANGED deviceState
    /\ Frame

CommandFails(s, error) ==
    /\ pending[s].kind # "idle"
    /\ pending' = [pending EXCEPT ![s] = Idle]
    /\ lastResponse' = ErrorResponse(pending[s].endpoint, error)
    /\ UNCHANGED deviceState
    /\ Frame

Init ==
    /\ variant \in Variants
    /\ env \in (IF variant \in {"part_002", "controller"} THEN Envs ELSE {NoEnv})
    /\ ServerStart
    /\ scanLines = <<>>
    /\ result = Str(<<>>)
    /\ parsed = NotParsed
    /\ pc = "call"

Next ==
    \/ \E ep \in {"/api/discovery/scan", "/api/device/search"} : ScanStart(ep)
    \/ \E s \in 1..MaxPending, out \in ScanOutputs : ScanComplete(s, out)
    \/ DiscoveryListStart
    \/ \E s \in 1..MaxPending, out \in ScanOutputs : DiscoveryListComplete(s, out)
    \/ \E b \in PairingCodeBodies : PairingCodeStart(b)
    \/ \E s \in 1..MaxPending : PairingCodeComplete(s)
    \/ \E b \in WifiBodies : CommissioningWifiStart(b)
    \/ \E s \in 1..MaxPending : CommissioningWifiComplete(s)
    \/ \E b \in DevicePairBodies : DevicePairStart(b)
    \/ \E s \in 1..MaxPending : DevicePairComplete(s)
    \/ \E b \in DeviceCommissionBodies : DeviceCommissionStart(b)
    \/ \E s \in 1..MaxPending : DeviceCommissionComplete(s)
    \/ \E b \in DeviceSetupBodies : DeviceSetupStart(b)
    \/ \E s \in 1..MaxPending : DeviceSetupComplete(s)
    \/ \E b \in ControllerBodies : ControllerPairingStart(b)
    \/ \E s \in 1..MaxPending : ControllerPairingComplete(s)
    \/ \E s \in 1..MaxPending, error \in ExecErrors : CommandFails(s, error)

Spec == Init /\ [][Next]_vars


(***************************************************************************)
(* The answer to a request, event by event.  exec runs its callback once;  *)
(* the child may emit 'error' as well, before or after.  In part_002 both  *)
(* settle the promise of executeMatterCommand, and the handler goes on     *)
(* when the promise settles; controller.js and part_000 answer inside the  *)
(* callback of exec.  A slot is kept when its request is over, so that a   *)
(* run handles MaxPending commands.                                        *)
(***************************************************************************)
AnswerVariants == {"part_002", "controller", "part_000"}

\* the servers whose executeMatterCommand listens to the 'error' event of the child
ListensToChildError == {"server_a", "server_c", "part_002"}

\* field f of the request r, d while the field was not written
Get(r, f, d) == IF f \in DOMAIN r THEN r[f] ELSE d

\* const { node_id, pin_code, discriminator, operational_dataset } = req.body
CommissionDeviceBodies ==
    [node_id : {defaultNodeId, Absent}, pin_code : SetupCodes \cup {Absent},
     discriminator : Discriminators \cup {Absent},
     operational_dataset : {<<"hex:0e08">>, Absent}]

\* POST /commission-device of part_000, up to exec(command, callback)
CommissionDeviceStart(b) ==
    /\ variant = "part_000"
    /\ IF \/ b.node_id = Absent \/ b.pin_code = Absent
          \/ b.discriminator = Absent \/ b.operational_dataset = Absent
       THEN Reject("/commission-device", 400)
       ELSE Await([kind |-> "commissionDevice", endpoint |-> "/commission-device",
                   command |-> Words(<< <<"./chip-tool">>, <<"pairing">>, <<"ble-thread">>,
                                        b.node_id, b.operational_dataset, b.pin_code,
                                        b.discriminator >>)])
    /\ Frame

\* what the handler of request r stores once its command printed `out`
SuccessWrite(r, out) ==
    IF r.kind = "scan" THEN StoreDiscovered(deviceState, parseOf[variant][out].devices, now)
    ELSE IF r.kind = "devicePair"
    THEN MapSet(deviceState, r.nodeId,
                ManuallyPairedEntry(r.deviceInfo, r.manualPairingCode, now))
    ELSE IF r.kind = "deviceCommission"
    THEN MapSet(deviceState, r.nodeId, CommissionedEntry(r.deviceInfo, r.ssid, now))
    ELSE deviceState

\* the response of the handler of request r to a command that printed `out`
SuccessResponse(r, out, stored) ==
    IF r.kind = "scan"
    THEN [endpoint |-> r.endpoint, http |-> 200, devices |-> parseOf[variant][out].devices]
    ELSE IF r.kind = "list"
    THEN [endpoint |-> r.endpoint, http |-> 200,
          devices |-> [i \in 1..Len(parseOf[variant][out].devices) |->
                          WithState(deviceState, parseOf[variant][out].devices[i], now)]]
    ELSE IF r.kind \in {"devicePair", "deviceCommission"}
    THEN [endpoint |-> r.endpoint, http |-> 200, deviceInfo |-> stored[r.nodeId]]
    ELSE [endpoint |-> r.endpoint, http |-> 200]

\* the stderr argument of the callback of exec: the text the message of
\* its error ends with
StderrOf(error) ==
    LET i == IndexOf(error.message, <<"\n">>)
    IN  IF i = 0 THEN <<>> ELSE SubSeq(error.message, i + 1, Len(error.message))

\* the response to a command that ended with `error`; part_000 answers
\* { error: stderr }
FailureResponse(r, error) ==
    IF variant = "part_000"
    THEN [endpoint |-> r.endpoint, http |-> 500, body |-> [error |-> StderrOf(error)]]
    ELSE ErrorResponse(r.endpoint, error)

\* a faulty promise: every resolve and reject runs the handler's continuation
Continues_EveryTime(r) == TRUE

\* the handler goes on at the first resolve or reject only: a promise settles once
Continues(r) == ~Get(r, "settled", FALSE)

\* the continuation of the handler of slot s answers: outcome is <<>> for a
\* command that printed `out`, else <<error>>
Answer(s, outcome, out) ==
    LET r == pending[s]
    IN  IF outcome = <<>>
        THEN /\ deviceState' = SuccessWrite(r, out)
             /\ lastResponse' = SuccessResponse(r, out, deviceState')
        ELSE /\ UNCHANGED deviceState
             /\ lastResponse' = FailureResponse(r, outcome[1])

\* exec calls its callback (error, stdout, stderr): once for a command
ExecCallback(s, outcome, out) ==
    /\ variant \in AnswerVariants
    /\ pending[s].kind # "idle"
    /\ ~Get(pending[s], "callbackRan", FALSE)
    /\ IF variant = "part_002" /\ ~Continues(pending[s])
       THEN /\ pending' = [pending EXCEPT ![s] = Spread(@, [callbackRan |-> TRUE])]
            /\ UNCHANGED <<deviceState, lastResponse>>
       ELSE /\ pending' = [pending EXCEPT ![s] =
                              Spread(@, [callbackRan |-> TRUE, settled |-> TRUE,
                                         answers |-> Get(@, "answers", 0) + 1])]
            /\ Answer(s, outcome, out)
    /\ Frame

\* childProcess.on('error', (error) => { ...; reject(error) })
ChildError(s) ==
    /\ variant \in AnswerVariants \cap ListensToChildError
    /\ pending[s].kind # "idle"
    /\ ~Get(pending[s], "errorEmitted", FALSE)
    /\ IF ~Continues(pending[s])
       THEN /\ pending' = [pending EXCEPT ![s] = Spread(@, [errorEmitted |-> TRUE])]
            /\ UNCHANGED <<deviceState, lastResponse>>
       ELSE /\ pending' = [pending EXCEPT ![s] =
                              Spread(@, [errorEmitted |-> TRUE, settled |-> TRUE,
                                         answers |-> Get(@, "answers", 0) + 1])]
            /\ Answer(s, <<SpawnError>>, <<>>)
    /\ Frame

\* the registry of part_002 after a scan that found two devices and a
\* /api/device/pair request for the first
PairedRegistry ==
    LET out     == CHOOSE o \in ScanOutputs : Len(o) = 4
        scanned == StoreDiscovered(EmptyMap, parseOf["part_002"][out].devices, now)
    IN  MapSet(scanned, <<"1">>,
               ManuallyPairedEntry(scanned[<<"1">>], <<"34970112332">>, now))

AnswerInit ==
    /\ variant \in AnswerVariants
    /\ env \in (IF variant = "part_000" THEN {NoEnv} ELSE Envs)
    /\ parseOf = ScanResult
    /\ deviceState \in (IF variant = "part_002" THEN {EmptyMap, PairedRegistry}
                        ELSE {EmptyMap})
    /\ pending = [s \in 1..MaxPending |-> Idle]
    /\ lastResponse = NoResponse
    /\ proc = Listening
    /\ call = NoCall
    /\ scanLines = <<>>
    /\ result = Str(<<>>)
    /\ parsed = NotParsed
    /\ pc = "call"

AnswerNext ==
    \/ \E ep \in {"/api/discovery/scan", "/api/device/search"} : ScanStart(ep)
    \/ DiscoveryListStart
    \/ \E b \in DevicePairBodies : DevicePairStart(b)
    \/ \E b \in DeviceCommissionBodies : DeviceCommissionStart(b)
    \/ \E b \in ControllerBodies : ControllerPairingStart(b)
    \/ \E b \in CommissionDeviceBodies : CommissionDeviceStart(b)
    \/ \E s \in 1..MaxPending, out \in ScanOutputs : ExecCallback(s, <<>>, out)
    \/ \E s \in 1..MaxPending, error \in ExecErrors : ExecCallback(s, <<error>>, <<>>)
    \/ \E s \in 1..MaxPending : ChildError(s)

SpecAnswer == AnswerInit /\ [][AnswerNext]_vars

(***************************************************************************)
(* The servers that store what a scan found, with scans of 0, 1 and 2      *)
(* records                                                                 *)
(***************************************************************************)
ScanInit ==
    /\ variant \in ParserVariants
    /\ env = NoEnv
    /\ ServerStart
    /\ scanLines = <<>>
    /\ result = Str(<<>>)
    /\ parsed = NotParsed
    /\ pc = "call"

ScanNext ==
    \/ \E ep \in {"/api/discovery/scan", "/api/device/search"} : ScanStart(ep)
    \/ \E s \in 1..MaxPending, out \in ScanOutputsWide : ScanComplete(s, out)
    \/ \E b \in DevicePairBodies : DevicePairStart(b)
    \/ \E s \in 1..MaxPending : DevicePairComplete(s)
    \/ \E b \in DeviceSetupBodies : DeviceSetupStart(b)
    \/ \E s \in 1..MaxPending : DeviceSetupComplete(s)
    \/ \E s \in 1..MaxPending, error \in ExecErrors : CommandFails(s, error)

SpecScan == ScanInit /\ [][ScanNext]_vars

(***************************************************************************)
(* Shutdown: the SIGTERM and SIGINT handlers and gracefulShutdown           *)
(***************************************************************************)
\* the servers that register the signal handlers
HandlesSignals == {"server_a", "server_c", "part_002"}

\* how many signals a run delivers
MaxSignals == 2

\* setTimeout(..., 10000): the grace period in milliseconds; the timer is
\* modelled by its firing, which nothing cancels
GraceMs == 10000

\* a faulty gracefulShutdown: the listener is closed, no timer is set
gracefulShutdown_NoTimer(p) ==
    [p EXCEPT !.listening = FALSE, !.closeCallbacks = @ + 1]

\* server.close(callback) stops the listener and registers the callback for
\* the 'close' event; setTimeout registers one more grace timer
gracefulShutdown(p) ==
    [p EXCEPT !.listening = FALSE, !.closeCallbacks = @ + 1, !.timers = @ + 1]

Running == proc.exit = {}

\* each request holds a connection of its own until it is answered
OpenConnections == {s \in 1..MaxPending : pending[s] # Idle}

\* process.on('SIGTERM' | 'SIGINT', () => { ...; gracefulShutdown(); })
Signal(sig) ==
    /\ variant \in HandlesSignals
    /\ Running
    /\ proc.signals < MaxSignals
    /\ proc' = gracefulShutdown([proc EXCEPT !.signals = @ + 1])
    /\ UNCHANGED <<variant, env, deviceState, pending, parseOf, lastResponse, call>>
    /\ UNCHANGED parserVars

\* the 'close' event: the listener is closed and the last connection has
\* ended; the callback of server.close calls process.exit(0)
ServerClosed ==
    /\ Running
    /\ ~proc.listening
    /\ proc.closeCallbacks > 0
    /\ OpenConnections = {}
    /\ proc' = [proc EXCEPT !.exit = {0}]
    /\ UNCHANGED <<variant, env, deviceState, pending, parseOf, lastResponse, call>>
    /\ UNCHANGED parserVars

\* a grace timer fires after GraceMs: process.exit(1)
GraceTimerFires ==
    /\ Running
    /\ proc.timers > 0
    /\ proc' = [proc EXCEPT !.exit = {1}]
    /\ UNCHANGED <<variant, env, deviceState, pending, parseOf, lastResponse, call>>
    /\ UNCHANGED parserVars

ShutdownInit ==
    /\ variant \in HandlesSignals
    /\ env = NoEnv
    /\ ServerStart
    /\ scanLines = <<>>
    /\ result = Str(<<>>)
    /\ parsed = NotParsed
    /\ pc = "call"

\* a request needs a new connection, which only an open listener accepts; a
\* request that waits for its command goes on while the process runs
ShutdownNext ==
    \/ \E sig \in {"SIGTERM", "SIGINT"} : Signal(sig)
    \/ ServerClosed
    \/ GraceTimerFires
    \/ Running /\ proc.listening /\ \E ep \in {"/api/discovery/scan", "/api/device/search"} : ScanStart(ep)
    \/ Running /\ proc.listening /\ \E b \in WifiBodies : CommissioningWifiStart(b)
    \/ Running /\ \E s \in 1..MaxPending, out \in ScanOutputs : ScanComplete(s, out)
    \/ Running /\ \E s \in 1..MaxPending : CommissioningWifiComplete(s)
    \/ Running /\ \E s \in 1..MaxPending, error \in ExecErrors : CommandFails(s, error)

\* the timer set by setTimeout fires once its delay is over
SpecShutdown == ShutdownInit /\ [][ShutdownNext]_vars /\ WF_vars(GraceTimerFires)

(***************************************************************************)
(* The Wi-Fi commands and the words /bin/sh makes of them                  *)
(***************************************************************************)
\* the longest SSID and password, in characters
MaxValueLen == 2

\* the characters of an SSID or a password: a letter, a blank, a double quote
ValueChars == {"a", " ", "\""}

Values == UNION {[1..n -> ValueChars] : n \in 1..MaxValueLen}

\* `pairing ble-wifi ${nodeId} ${discriminator} "${ssid}" "${password}"`
BleWifiCommand(nodeId, discriminator, ssid, password) ==
    <<"pairing", " ", "ble-wifi", " ">> \o Tpl(nodeId) \o <<" ">> \o Tpl(discriminator)
        \o <<" ", "\"">> \o ssid \o <<"\"", " ", "\"">> \o password \o <<"\"">>

\* MATTER_CONFIG.paaStorePath
paaStorePath == <<"/home/ubuntu/connectedhomeip/credentials/development/paa-root-certs">>

\* `pairing code-wifi ${nodeId} "${ssid}" "${password}" ${setupPinCode} --paa-trust-store-path ${paaCertPath}`
CodeWifiCommand(nodeId, ssid, password, setupPinCode, paaCertPath) ==
    <<"pairing", " ", "code-wifi", " ">> \o Tpl(nodeId) \o <<" ", "\"">> \o ssid
        \o <<"\"", " ", "\"">> \o password \o <<"\"", " ">> \o Tpl(setupPinCode)
        \o <<" ", "--paa-trust-store-path", " ">> \o paaCertPath

\* the word that names the tool in the line handed to exec
ToolWord(v) ==
    IF v = "part_001" THEN <<"./", "out/chip-tool/chip-tool">>
    ELSE IF v \in {"server_b", "controller"} THEN <<"chip-tool">>
    ELSE chipToolFullPath

\* fullCommand of executeMatterCommand; the second server of server.js and
\* controller.js hand their command to exec as it is
FullCommand(v, command) ==
    IF v \in {"server_b", "controller"} THEN command
    ELSE <<"cd", " ", "/home/ubuntu/connectedhomeip", " ", "&&", " ">> \o ToolWord(v)
             \o <<" ">> \o command

\* the Wi-Fi command each server hands to exec for an SSID and a password
WifiCommandLine(v, ssid, password) ==
    IF v = "controller"
    THEN ControllerCommand([nodeId |-> defaultNodeId, manualPairingCode |-> Absent,
                            discriminator |-> <<"3840">>, deviceAddress |-> <<"BLE">>,
                            networkType |-> "wifi"])
    ELSE IF v = "server_b"
    THEN FullCommand(v, ToolWord(v) \o <<" ">>
                        \o BleWifiCommand(defaultNodeId, <<"3840">>, ssid, password))
    ELSE IF v = "server_c"
    THEN FullCommand(v, CodeWifiCommand(defaultNodeId, ssid, password, <<"34970112332">>,
                                        paaStorePath))
    ELSE FullCommand(v, BleWifiCommand(defaultNodeId, <<"3840">>, ssid, password))

\* sh: Syntax error: Unterminated quoted string -- nothing is run
ShellSyntaxError == << <<"Syntax error", ": ", "Unterminated quoted string">> >>

\* the words /bin/sh -c makes of a line: blanks outside double quotes end a
\* word, a double quote opens or closes a quoted part and is removed
RECURSIVE ShellFrom(_, _, _, _, _, _)
ShellFrom(s, i, quoted, word, open, acc) ==
    IF i > Len(s)
    THEN IF quoted THEN ShellSyntaxError
         ELSE IF open THEN Append(acc, word) ELSE acc
    ELSE IF s[i] = "\""
    THEN ShellFrom(s, i + 1, ~quoted, word, TRUE, acc)
    ELSE IF s[i] = " " /\ ~quoted
    THEN IF open THEN ShellFrom(s, i + 1, FALSE, <<>>, FALSE, Append(acc, word))
         ELSE ShellFrom(s, i + 1, FALSE, <<>>, FALSE, acc)
    ELSE ShellFrom(s, i + 1, quoted, Append(word, s[i]), TRUE, acc)

ShellWords(s) == ShellFrom(s, 1, FALSE, <<>>, FALSE, <<>>)

\* the arguments the tool is started with: the words after the word of the tool
ToolArgs(v, line) ==
    LET words == ShellWords(line)
        at    == {i \in 1..Len(words) : words[i] = ToolWord(v)}
    IN  IF words = ShellSyntaxError \/ at = {} THEN ShellSyntaxError
        ELSE SubSeq(words, (CHOOSE i \in at : \A j \in at : i <= j) + 1, Len(words))

CommandVariants == {"part_001", "server_a", "server_b", "part_002", "server_c", "controller"}

CommandInit ==
    /\ variant \in CommandVariants
    /\ call \in [fn : {"wifiCommand"}, ssid : Values, password : Values,
                 argv : {<<>>}, done : {FALSE}]
    /\ env = IF variant = "controller"
             THEN [WIFI_SSID |-> call.ssid, WIFI_PASSWORD |-> call.password]
             ELSE NoEnv
    /\ deviceState = EmptyMap
    /\ pending = [s \in 1..MaxPending |-> Idle]
    /\ parseOf = ScanResult
    /\ lastResponse = NoResponse
    /\ proc = Listening
    /\ scanLines = <<>>
    /\ result = Str(<<>>)
    /\ parsed = NotParsed
    /\ pc = "call"

\* exec(fullCommand): the shell starts the tool with the words of the line
RunWifiCommand ==
    /\ call.fn = "wifiCommand"
    /\ ~call.done
    /\ call' = [call EXCEPT !.argv = ToolArgs(variant, WifiCommandLine(variant, call.ssid,
                                                                       call.password)),
                            !.done = TRUE]
    /\ UNCHANGED <<variant, env, deviceState, pending, parseOf, lastResponse, proc>>
    /\ UNCHANGED parserVars

CommandNext == RunWifiCommand

SpecCommand == CommandInit /\ [][CommandNext]_vars

(***************************************************************************)
(* handleMatterError as a function of the error                            *)
(***************************************************************************)
\* the texts a tool may have written, each with one pattern of handleMatterError
Fragments ==
    << <<"CHIP Error ", "0x", "00000032", ": ", "Timeout">>,
       <<"CHIP:BLE", ": ", "scan failed">>,
       <<"CHIP:DMG", ": ", "bad attribute">>,
       <<"chip-tool", ": ", "not found">>,
       <<"CHIP Error ", "0x", "000000AC", ": ", "Internal error">> >>

\* the fragments picked by the set `pick` of positions, in order, after the
\* head of the message of an exec error
RECURSIVE FragmentsFrom(_, _)
FragmentsFrom(pick, i) ==
    IF i > Len(Fragments) THEN <<>>
    ELSE (IF i \in pick THEN <<"\n">> \o Fragments[i] ELSE <<>>) \o FragmentsFrom(pick, i + 1)

\* an error may carry a stderr property: none, a text without pattern, a
\* text with the timeout pattern
StderrProperties == {<<>>, <<"boom">>, Fragments[1]}

ClassifiedErrors ==
    {Err(<<"Command failed", ": ", "cmd">> \o FragmentsFrom(pick, 1), stderr) :
        pick \in SUBSET (1..Len(Fragments)), stderr \in StderrProperties}

ErrorVariants == {"part_001", "server_a", "server_b", "part_002", "server_c"}

ErrorInit ==
    /\ variant \in ErrorVariants
    /\ call \in [fn : {"handleMatterError"}, error : ClassifiedErrors,
                 details : {<<>>}, done : {FALSE}]
    /\ env = NoEnv
    /\ deviceState = EmptyMap
    /\ pending = [s \in 1..MaxPending |-> Idle]
    /\ parseOf = ScanResult
    /\ lastResponse = NoResponse
    /\ proc = Listening
    /\ scanLines = <<>>
    /\ result = Str(<<>>)
    /\ parsed = NotParsed
    /\ pc = "call"

\* const errorDetails = handleMatterError(error)
Classify ==
    /\ call.fn = "handleMatterError"
    /\ ~call.done
    /\ call' = [call EXCEPT !.details = handleMatterError(variant, call.error), !.done = TRUE]
    /\ UNCHANGED <<variant, env, deviceState, pending, parseOf, lastResponse, proc>>
    /\ UNCHANGED parserVars

ErrorNext == Classify

SpecError == ErrorInit /\ [][ErrorNext]_vars

(***************************************************************************)
(* The registry and the discovery scan                                     *)
(***************************************************************************)
\* the records a completing scan parsed from the output `out`
ParsedRecords(out) == parseOf[variant][out].devices

\* the step completes the request of slot s, a scan or a request for key k
WritesKey(s, k) ==
    /\ pending[s].kind # "idle"
    /\ pending'[s] = Idle
    /\ pending[s].kind = "scan" \/ pending[s].nodeId = k

\* C7: after a successful scan that parsed record r with nodeId k, the entry
\* for k has status 'discovered' and every field of r with r's value; the
\* entry stays as it is in every step that is not the completion of a scan or
\* of a request for k.
C7_ScanStoresRecords ==
    [][ /\ \A s \in 1..MaxPending, out \in ScanOutputs :
              (variant \in ParserVariants /\ ScanComplete(s, out)) =>
                  \A i \in 1..Len(ParsedRecords(out)) :
                      LET r == ParsedRecords(out)[i]
                      IN  /\ Has(deviceState', r.nodeId)
                          /\ deviceState'[r.nodeId].status = "discovered"
                          /\ \A f \in DOMAIN r :
                                 /\ f \in DOMAIN deviceState'[r.nodeId]
                                 /\ deviceState'[r.nodeId][f] = r[f]
        /\ \A k \in DOMAIN deviceState :
              (deviceState'[k] # deviceState[k]) =>
                  \E s \in 1..MaxPending : WritesKey(s, k)
      ]_vars

\* C7 witness: /api/device/search answered with two parsed records, and the
\* entry of the first is 'discovered' with the announced host name
C7_Witness ==
    /\ variant \in ParserVariants
    /\ lastResponse = [endpoint |-> "/api/device/search", http |-> 200,
                       devices |-> parseOf[variant][CHOOSE o \in ScanOutputs : o # <<>>].devices]
    /\ Len(lastResponse.devices) = 2
    /\ deviceState[<<"1">>].status = "discovered"
    /\ deviceState[<<"1">>].name = <<"plug2">>

\* C8: a successful scan replaces the entry of every nodeId it returns: the
\* new entry consists of the parsed record, status 'discovered' and the
\* timestamp, and of nothing else (no setupCode, manualPairingCode, network
\* or pairingTimestamp of the entry it replaces).
C8_ScanReplacesEntry ==
    [][ \A s \in 1..MaxPending, out \in ScanOutputs :
            (variant \in ParserVariants /\ ScanComplete(s, out)) =>
                \A i \in 1..Len(ParsedRecords(out)) :
                    LET r == ParsedRecords(out)[i]
                        e == deviceState'[r.nodeId]
                    IN  /\ e.status = "discovered"
                        /\ DOMAIN e = (DOMAIN r) \cup {"status", "timestamp"}
                        /\ \A f \in DOMAIN r : e[f] = r[f]
                        /\ DOMAIN e \cap {"setupCode", "manualPairingCode", "network",
                                          "pairingTimestamp"} = {}
      ]_vars

\* C8 witness: a commission request read its entry as 'paired' and is still
\* awaiting the tool, and a scan has since replaced that entry: it is
\* 'discovered' and has no manualPairingCode
C8_Witness ==
    /\ variant = "part_002"
    /\ lastResponse.http = 200
    /\ lastResponse.endpoint \in {"/api/discovery/scan", "/api/device/search"}
    /\ \E s \in 1..MaxPending :
           /\ pending[s].kind = "deviceCommission"
           /\ pending[s].deviceInfo.status = "paired"
           /\ "manualPairingCode" \in DOMAIN pending[s].deviceInfo
           /\ deviceState[pending[s].nodeId].status = "discovered"
           /\ "manualPairingCode" \notin DOMAIN deviceState[pending[s].nodeId]

(***************************************************************************)
(* Commissioning requests                                                  *)
(***************************************************************************)
\* the request is answered with `code` at once: no command, registry as it was
AnsweredAtOnce(ep, code) ==
    /\ lastResponse' = [endpoint |-> ep, http |-> code]
    /\ pending' = pending
    /\ deviceState' = deviceState

\* C9: a commissioning request (/api/commissioning/wifi, /api/device/commission,
\* /api/device/setup) that carries the fields its handler requires and names a
\* device id without registry entry is answered 404, runs no command and
\* leaves the registry unchanged.
C9_UnknownIdIsNotFound ==
    [][ /\ \A b \in WifiBodies :
              (/\ CommissioningWifiStart(b)
               /\ b.ssid # Absent /\ b.password # Absent
               /\ ~Has(deviceState, IF b.nodeId = Absent THEN defaultNodeId ELSE b.nodeId))
              => AnsweredAtOnce("/api/commissioning/wifi", 404)
        /\ \A b \in DeviceCommissionBodies :
              (DeviceCommissionStart(b) /\ ~Has(deviceState, b.deviceId))
              => AnsweredAtOnce("/api/device/commission", 404)
        /\ \A b \in DeviceSetupBodies :
              (/\ DeviceSetupStart(b)
               /\ b.setupPinCode # Absent /\ b.ssid # Absent /\ b.password # Absent
               /\ ~Has(deviceState, b.nodeId))
              => AnsweredAtOnce("/api/device/setup", 404)
      ]_vars

\* C10: /api/device/commission on an entry whose status is not 'paired' is
\* answered 400, runs no command and leaves the registry unchanged; a
\* commission request that writes had read its entry as 'paired', and writes
\* status 'commissioned' with network.ssid.
C10_CommissionNeedsPaired ==
    [][ /\ \A b \in DeviceCommissionBodies :
              (/\ DeviceCommissionStart(b)
               /\ Has(deviceState, b.deviceId)
               /\ deviceState[b.deviceId].status # "paired")
              => AnsweredAtOnce("/api/device/commission", 400)
        /\ \A s \in 1..MaxPending :
              DeviceCommissionComplete(s) =>
                  /\ pending[s].deviceInfo.status = "paired"
                  /\ deviceState'[pending[s].nodeId].status = "commissioned"
                  /\ deviceState'[pending[s].nodeId].network.ssid = pending[s].ssid
      ]_vars

\* C10 witness: /api/device/commission was answered 400 while no entry of the
\* registry was 'paired' and one was already 'commissioned'
C10_Witness ==
    /\ variant = "part_002"
    /\ lastResponse = [endpoint |-> "/api/device/commission", http |-> 400]
    /\ \A k \in DOMAIN deviceState : deviceState[k].status # "paired"
    /\ \E k \in DOMAIN deviceState : deviceState[k].status = "commissioned"
    /\ \E k \in DOMAIN deviceState : deviceState[k].status = "discovered"

(***************************************************************************)
(* Pairing requests                                                        *)
(***************************************************************************)
\* C11: /api/device/pair without manualPairingCode is answered 400 whatever
\* the registry holds; with a manualPairingCode and a deviceId that has no
\* entry it is answered 404; in both cases no command is run and the registry
\* stays as it was (no entry is created).
C11_PairUnknownIsNotFound ==
    [][ \A b \in DevicePairBodies :
            DevicePairStart(b) =>
                /\ b.manualPairingCode = Absent
                       => AnsweredAtOnce("/api/device/pair", 400)
                /\ (b.manualPairingCode # Absent /\ ~Has(deviceState, b.deviceId))
                       => AnsweredAtOnce("/api/device/pair", 404)
      ]_vars

\* C11 witness: /api/device/pair was answered 404 by a server whose registry
\* holds entries of other devices and none of the device asked for
C11_Witness ==
    /\ variant = "part_002"
    /\ lastResponse = [endpoint |-> "/api/device/pair", http |-> 404]
    /\ DOMAIN deviceState # {}
    /\ \E k \in NodeIds : ~Has(deviceState, k)

\* the node id /api/pairing/code and /api/commissioning/wifi act on
NodeIdOf(b) == IF b.nodeId = Absent THEN defaultNodeId ELSE b.nodeId

\* C12: a /api/pairing/code request with a setupCode that starts its command runs it for
\* nodeId k ("1" when the body has none) with the request's setupCode and
\* discriminator; when the command succeeds the entry for k exists, has status
\* 'paired' and these two values, whether or not an entry existed before.
C12_PairingCodeUpserts ==
    [][ /\ \A b \in PairingCodeBodies :
              (PairingCodeStart(b) /\ b.setupCode # Absent /\ pending' # pending) =>
                  \E s \in 1..MaxPending :
                      /\ pending[s] = Idle
                      /\ pending'[s].kind = "pairingCode"
                      /\ pending'[s].nodeId = NodeIdOf(b)
                      /\ pending'[s].setupCode = b.setupCode
                      /\ pending'[s].discriminator = b.discriminator
        /\ \A s \in 1..MaxPending :
              PairingCodeComplete(s) =>
                  /\ Has(deviceState', pending[s].nodeId)
                  /\ LET e == deviceState'[pending[s].nodeId]
                     IN  /\ {"status", "setupCode", "discriminator"} \subseteq DOMAIN e
                         /\ e.status = "paired"
                         /\ e.setupCode = pending[s].setupCode
                         /\ e.discriminator = pending[s].discriminator
                  /\ lastResponse'.http = 200
      ]_vars

\* C12 witness: /api/pairing/code succeeded for the default node id on a
\* registry that held no entry for it before: the entry is the only one
C12_Witness ==
    /\ variant \in FamilyA
    /\ lastResponse.endpoint = "/api/pairing/code"
    /\ lastResponse.http = 200
    /\ DOMAIN deviceState = {defaultNodeId}
    /\ deviceState[defaultNodeId].status = "paired"
    /\ deviceState[defaultNodeId].setupCode \in SetupCodes

\* C13: a /api/pairing/code request without setupCode (and, for controller.js,
\* which reads no setupCode, without manualPairingCode) is answered 400, runs
\* no command and leaves the registry as it was.
C13_NoSetupCodeIs400 ==
    [][ /\ \A b \in PairingCodeBodies :
              (PairingCodeStart(b) /\ b.setupCode = Absent)
              => AnsweredAtOnce("/api/pairing/code", 400)
        /\ \A b \in ControllerBodies :
              (ControllerPairingStart(b) /\ b.manualPairingCode = Absent)
              => AnsweredAtOnce("/api/pairing/code", 400)
      ]_vars

(***************************************************************************)
(* The life of a registry entry                                            *)
(***************************************************************************)
\* the place of a status in the order discovered, paired, commissioned
StatusRank(status) ==
    IF status = "discovered" THEN 1 ELSE IF status = "paired" THEN 2 ELSE 3

\* C14: the status of an entry only moves forward in the order discovered,
\* paired, commissioned: no step takes an entry to an earlier status.
C14_StatusMovesForward ==
    [][ \A k \in DOMAIN deviceState :
            Has(deviceState', k) =>
                StatusRank(deviceState'[k].status) >= StatusRank(deviceState[k].status)
      ]_vars

\* C15: a key of deviceState stays a key in every step
C15_KeysNeverRemoved == [][ DOMAIN deviceState \subseteq DOMAIN deviceState' ]_vars

\* C15 witness: after a scan that stored two entries, pairing and
\* commissioning wrote the first entry, and both keys are still there
C15_Witness ==
    /\ variant = "part_002"
    /\ DOMAIN deviceState = {<<"1">>, <<"2">>}
    /\ deviceState[<<"1">>].status = "commissioned"
    /\ deviceState[<<"2">>].status = "discovered"
    /\ lastResponse.endpoint = "/api/device/commission"
    /\ lastResponse.http = 200

\* C16: a handler that writes an entry derived from the stored one derives it
\* from the entry as it is stored at the moment of the write.
C16_WritesFromCurrentEntry ==
    [][ \A s \in 1..MaxPending :
            LET k == pending[s].nodeId
            IN  /\ DevicePairComplete(s) =>
                       deviceState'[k] = ManuallyPairedEntry(deviceState[k],
                                                             pending[s].manualPairingCode, now)
                /\ DeviceCommissionComplete(s) =>
                       deviceState'[k] = CommissionedEntry(deviceState[k], pending[s].ssid, now)
                /\ DeviceSetupComplete(s) =>
                       deviceState'[k] = SetupEntry(deviceState[k], pending[s], now)
      ]_vars

(***************************************************************************)
(* What a response gives away                                              *)
(***************************************************************************)
\* the fields of a deviceInfo whose value is a text
InfoTexts(info) ==
    (DOMAIN info) \ {"addresses", "type", "status", "network",
                     "supportsCommissionerGeneratedPasscode"}

\* the text `secret` is the value of a field of the deviceInfo `info`
Echoes(info, secret) ==
    \/ \E f \in InfoTexts(info) : info[f] = secret
    \/ "addresses" \in DOMAIN info /\ \E i \in 1..Len(info.addresses) : info.addresses[i] = secret
    \/ "network" \in DOMAIN info /\ \E g \in DOMAIN info.network : info.network[g] = secret

\* C19: the deviceInfo of a successful /api/device/setup response holds
\* neither the Wi-Fi password nor the setupPinCode of the request.
C19_SetupEchoesNoSecret ==
    [][ \A s \in 1..MaxPending :
            DeviceSetupComplete(s) =>
                /\ ~Echoes(lastResponse'.deviceInfo, pending[s].password)
                /\ ~Echoes(lastResponse'.deviceInfo, pending[s].setupPinCode)
      ]_vars

\* the response is the JSON error envelope {status: "error", code, message}
IsErrorEnvelope(r) ==
    /\ r.http = 500
    /\ "body" \in DOMAIN r
    /\ {"status", "code", "message"} \subseteq DOMAIN r.body
    /\ r.body.status = "error"

\* the step answers a request whose tool is missing at chipToolFullPath
MissingToolStep ==
    /\ variant \in ChecksTool
    /\ pending' = pending
    /\ lastResponse' # lastResponse
    /\ lastResponse'.http = 500

\* C17: in the servers that run their commands through executeMatterCommand,
\* a request whose command fails (exec error, timeout, spawn error or missing
\* tool) is answered with HTTP 500 and {status: "error", code, message}, and
\* neither the start of the request nor its failure writes the registry.
C17_FailureAnswers500 ==
    [][ variant # "controller" =>
          /\ \A s \in 1..MaxPending, error \in ExecErrors :
                 CommandFails(s, error) =>
                     /\ IsErrorEnvelope(lastResponse')
                     /\ lastResponse'.endpoint = pending[s].endpoint
                     /\ deviceState' = deviceState
          /\ MissingToolStep =>
                 /\ IsErrorEnvelope(lastResponse')
                 /\ deviceState' = deviceState
          /\ (\E s \in 1..MaxPending : pending[s].kind = "idle" /\ pending'[s].kind # "idle") =>
                 deviceState' = deviceState
      ]_vars

\* a failed command was answered while the registry holds a device
C17_Witness ==
    /\ variant = "part_002"
    /\ IsErrorEnvelope(lastResponse)
    /\ lastResponse.body.code = "BLE_ERROR"
    /\ lastResponse.endpoint = "/api/device/pair"
    /\ DOMAIN deviceState # {}

\* C18: a request starts its command once: while it waits the count of
\* started commands is 1, a waiting request only ever ends, and a failure ends it.
C18_CommandStartedOnce ==
    [][ \A s \in 1..MaxPending :
          /\ pending'[s].kind # "idle" => pending'[s].execs = 1
          /\ (pending[s].kind # "idle" /\ pending'[s] # pending[s]) =>
                 /\ pending'[s] = Idle
                 /\ lastResponse'.endpoint = pending[s].endpoint
          /\ \A error \in ExecErrors :
                 CommandFails(s, error) =>
                     (pending'[s] = Idle /\ lastResponse'.http = 500)
      ]_vars

\* the command of controller.js failed and no request is left waiting
C18_Witness ==
    /\ variant = "controller"
    /\ lastResponse.http = 500
    /\ \A s \in 1..MaxPending : pending[s] = Idle

\* C20: a request that finds no tool at chipToolFullPath is answered with
\* code COMMAND_NOT_FOUND and starts no subprocess.
C20_MissingToolIsNotFound ==
    [][ MissingToolStep =>
          /\ IsErrorEnvelope(lastResponse')
          /\ lastResponse'.body.code = "COMMAND_NOT_FOUND"
          /\ \A s \in 1..MaxPending : pending'[s] = pending[s]
      ]_vars

(***************************************************************************)
(* Shutdown                                                                *)
(***************************************************************************)
\* C21: once SIGTERM or SIGINT was handled the listener accepts nothing, the
\* process ends with code 0 only when the listener is closed and no
\* connection is open, else with code 1 from a grace timer, and every run in
\* which a signal was handled leads to the exit of the process, also with a
\* command outstanding or after a second signal.
C21_ShutdownExits ==
    /\ [](proc.signals > 0 => ~proc.listening)
    /\ [](proc.exit \subseteq {0, 1})
    /\ [](proc.exit = {0} => (~proc.listening /\ OpenConnections = {}))
    /\ [](proc.exit = {1} => proc.timers > 0)
    /\ [][~Running => UNCHANGED vars]_vars
    /\ (proc.signals > 0) ~> ~Running

\* the grace timer ended the process after a second signal while a command
\* was outstanding
C21_Witness ==
    /\ proc.signals = 2
    /\ proc.exit = {1}
    /\ OpenConnections # {}

(***************************************************************************)
(* The arguments of the Wi-Fi commands                                     *)
(***************************************************************************)
\* where the SSID stands among the arguments of the tool, and how many there are
SsidAt(v) == IF v = "server_c" THEN 4 ELSE 5

ArgCount(v) == IF v = "server_c" THEN 8 ELSE 6

\* C22: whatever the SSID and the password hold, the tool is started with
\* the same number of arguments, the SSID is one of them and the password
\* is the next.
C22_OneArgumentEach ==
    (call.fn = "wifiCommand" /\ call.done) =>
        /\ Len(call.argv) = ArgCount(variant)
        /\ call.argv[SsidAt(variant)] = call.ssid
        /\ call.argv[SsidAt(variant) + 1] = call.password

(***************************************************************************)
(* Lines without effect                                                    *)
(***************************************************************************)
\* the lines that stay when the lines before the first marker line and the
\* lines of no known label are taken out
RECURSIVE KeptFrom(_, _)
KeptFrom(ls, i) ==
    IF i > Len(ls) THEN <<>>
    ELSE (IF \/ ls[i].label = "junk"
             \/ \A j \in 1..i : ls[j].label # "marker"
          THEN <<>> ELSE <<ls[i]>>) \o KeptFrom(ls, i + 1)

Kept(ls) == KeptFrom(ls, 1)

\* C23: the records parsed from an output are the records parsed from the
\* output without its lines before the first marker line and without its
\* lines of no known label.
C23_IgnoredLinesHaveNoEffect ==
    (Returned /\ result = Str(Render(scanLines))) =>
        parsed.devices = parseDiscoveryResult(variant, Str(Render(Kept(scanLines)))).devices

\* an output with a field line before its first marker line and a line of
\* no known label after it was parsed into a record
C23_Witness ==
    /\ Returned
    /\ result = Str(Render(scanLines))
    /\ Len(scanLines) = 3
    /\ scanLines[1].label = "Hostname"
    /\ scanLines[2].label = "marker"
    /\ scanLines[3] = L("tagged", "junk", <<"Mystery Key", ":", " ", "light1">>)
    /\ Len(parsed.devices) = 1

(***************************************************************************)
(* Decoration of the lines                                                 *)
(***************************************************************************)
\* every line stands behind the log prefix "[1.5] [1:2] [DIS] "
AllTagged == \A i \in 1..Len(scanLines) : scanLines[i].deco = "tagged"

\* the same lines without their log prefix
Undecorated(ls) == [i \in 1..Len(ls) |-> [ls[i] EXCEPT !.deco = "plain"]]

\* C24: an output whose lines all carry the log prefix yields the records of
\* the same output without the prefixes.
C24_PrefixDoesNotChangeParse ==
    (Returned /\ AllTagged /\ result = Str(Render(scanLines))) =>
        parsed.devices
            = parseDiscoveryResult(variant, Str(Render(Undecorated(scanLines)))).devices

(***************************************************************************)
(* GET /api/discovery/list                                                 *)
(***************************************************************************)
\* the status the registry ds holds for node id k, 'discovered' without entry
StoredStatus(ds, k) == IF k \in DOMAIN ds THEN ds[k].status ELSE "discovered"

\* C25: /api/discovery/list leaves deviceState as it is when it starts, when
\* it answers and when its command fails, and its answer gives for every
\* parsed record the status stored under the record's nodeId, 'discovered'
\* when nothing is stored.
C25_ListReadsOnly ==
    [][ /\ DiscoveryListStart => deviceState' = deviceState
        /\ \A s \in 1..MaxPending :
              /\ \A out \in ScanOutputs :
                    DiscoveryListComplete(s, out) =>
                        /\ deviceState' = deviceState
                        /\ Len(lastResponse'.devices) = Len(ParsedRecords(out))
                        /\ \A i \in 1..Len(ParsedRecords(out)) :
                              /\ lastResponse'.devices[i].nodeId = ParsedRecords(out)[i].nodeId
                              /\ lastResponse'.devices[i].status
                                     = StoredStatus(deviceState, ParsedRecords(out)[i].nodeId)
              /\ \A error \in ExecErrors :
                    (pending[s].kind = "list" /\ CommandFails(s, error)) =>
                        deviceState' = deviceState
      ]_vars

\* a list was answered that reports a paired device
C25_Witness ==
    /\ lastResponse.endpoint = "/api/discovery/list"
    /\ lastResponse.http = 200
    /\ \E i \in 1..Len(lastResponse.devices) :
          /\ lastResponse.devices[i].status = "paired"
          /\ lastResponse.devices[i].nodeId \in DOMAIN deviceState
          /\ deviceState[lastResponse.devices[i].nodeId].status = "paired"

(***************************************************************************)
(* The order of the tests of handleMatterError                             *)
(***************************************************************************)
\* the text in which the patterns are looked for
ErrorText(error) == error.message \o <<"\n">> \o error.stderr

\* the code the order "timeout, CHIP:BLE, CHIP:DMG, not found, CHIP Error
\* 0x.. or stderr, unknown" gives an error
CodeByPriority(error) ==
    IF Includes(ErrorText(error), <<"CHIP Error ", "0x", "00000032", ": ", "Timeout">>)
    THEN "TIMEOUT_ERROR"
    ELSE IF Includes(error.message, <<"CHIP:BLE">>) THEN "BLE_ERROR"
    ELSE IF Includes(error.message, <<"CHIP:DMG">>) THEN "DATA_MODEL_ERROR"
    ELSE IF Includes(error.message, <<"not found">>) THEN "COMMAND_NOT_FOUND"
    ELSE IF ChipErrorMatch(ErrorText(error)) # <<>> \/ error.stderr # <<>>
    THEN "MATTER_SDK_ERROR"
    ELSE "UNKNOWN_ERROR"

\* C26: handleMatterError gives every error the one code of the first test
\* that matches, in the order timeout, CHIP:BLE, CHIP:DMG, not found,
\* CHIP Error 0x.. or stderr, and UNKNOWN_ERROR when none matches.
C26_ClassifiedByPriority ==
    (call.fn = "handleMatterError" /\ call.done) =>
        /\ "code" \in DOMAIN call.details
        /\ call.details.code = CodeByPriority(call.error)

(***************************************************************************)
(* /api/device/commission among concurrent requests                        *)
(***************************************************************************)
\* the fields of an entry that a discovery scan or a pairing wrote
DiscoveryFields(entry) == (DOMAIN entry) \ {"status", "network"}

\* C27: when /api/device/commission writes its 'commissioned' entry, the
\* entry stored under the nodeId is 'paired' at that moment and the written
\* entry keeps the discovery fields stored at that moment.
C27_CommissionWritesOverPaired ==
    [][ \A s \in 1..MaxPending :
            DeviceCommissionComplete(s) =>
                LET k == pending[s].nodeId
                IN  /\ k \in DOMAIN deviceState
                    /\ deviceState[k].status = "paired"
                    /\ deviceState'[k].status = "commissioned"
                    /\ \A f \in DiscoveryFields(deviceState[k]) :
                          /\ f \in DOMAIN deviceState'[k]
                          /\ deviceState'[k][f] = deviceState[k][f]
      ]_vars

(***************************************************************************)
(* The keys a scan writes                                                  *)
(***************************************************************************)
\* the keys "1" .. "n"
FirstKeys(n) == {toString(i) : i \in 1..n}

\* C28: a scan that found n records writes the keys "1".."n" and no other:
\* every entry under another key stays as it is, and a scan that found no
\* record leaves deviceState as it is.
C28_ScanWritesFirstKeys ==
    [][ \A s \in 1..MaxPending, out \in ScanOutputsWide :
            ScanComplete(s, out) =>
                LET n == Len(ParsedRecords(out))
                IN  /\ DOMAIN deviceState' = DOMAIN deviceState \cup FirstKeys(n)
                    /\ \A k \in DOMAIN deviceState \ FirstKeys(n) :
                          deviceState'[k] = deviceState[k]
                    /\ n = 0 => deviceState' = deviceState
      ]_vars

\* a scan of one record was stored over the entries of a scan of two: the
\* second entry of the larger scan is still there
C28_Witness ==
    /\ DOMAIN deviceState = {<<"1">>, <<"2">>}
    /\ deviceState[<<"1">>].status = "discovered"
    /\ deviceState[<<"1">>].port = <<"5", "5", "4", "0">>
    /\ deviceState[<<"2">>].addresses = << <<"fe80", ":", ":", "1">> >>
    /\ lastResponse.http = 200
    /\ lastResponse.endpoint = "/api/discovery/scan"

(***************************************************************************)
(* What the registry keeps of a request                                    *)
(***************************************************************************)
\* the Wi-Fi passwords a request or the environment may supply
KnownPasswords == (Passwords \cup {env.WIFI_PASSWORD}) \ {<<>>}

\* C29: no entry of deviceState holds a Wi-Fi password, in any field, in its
\* addresses or under network.
C29_NoPasswordStored ==
    \A k \in DOMAIN deviceState :
        \A p \in KnownPasswords : ~Echoes(deviceState[k], p)

\* /api/device/setup stored an entry with the SSID of its request, whose
\* password the request carried
C29_Witness ==
    /\ variant = "server_c"
    /\ \E k \in DOMAIN deviceState :
          /\ deviceState[k].status = "commissioned"
          /\ "network" \in DOMAIN deviceState[k]
          /\ deviceState[k].network.ssid = <<"home">>
          /\ "setupPinCode" \in DOMAIN deviceState[k]
    /\ lastResponse.endpoint = "/api/device/setup"

(***************************************************************************)
(* One response per request                                                *)
(***************************************************************************)
\* how many responses the request of slot s got
Answers(s) == Get(pending[s], "answers", 0)

\* C30: a request whose command was started is answered at most once, and
\* once when the callback of exec ran or the promise settled, whatever the
\* order of the callback and the 'error' event of the child; a request that
\* is answered 400 or 404 starts no command.
C30_AnsweredOnce ==
    /\ [](\A s \in 1..MaxPending :
             pending[s].kind # "idle" =>
                 /\ Answers(s) <= 1
                 /\ pending[s].execs = 1
                 /\ Get(pending[s], "callbackRan", FALSE) => Answers(s) = 1
                 /\ Get(pending[s], "settled", FALSE) => Answers(s) = 1)
    /\ [][ (lastResponse' # lastResponse /\ lastResponse'.http \in {400, 404}) =>
               pending' = pending ]_vars

\* the callback of exec ran and the child emitted 'error' for one
\* /api/device/commission request, which got one response
C30_Witness ==
    \E s \in 1..MaxPending :
        /\ pending[s].kind = "deviceCommission"
        /\ Get(pending[s], "callbackRan", FALSE)
        /\ Get(pending[s], "errorEmitted", FALSE)
        /\ Answers(s) = 1


=============================================================================
